---- MODULE Spec2Model ----
(***************************************************************************)
(* ImageChain: a signed, hash-linked version history embedded in the       *)
(* pixels of an image.                                                     *)
(*                                                                         *)
(* The module holds eight specifications over one set of variables:        *)
(*   Spec        the editing session (App, ImageWorkflow, VersionHistory)  *)
(*               with its asynchronous ingest and commit handlers;         *)
(*   SpecVerify  runVerification applied to bounded, possibly tampered     *)
(*               payloads;                                                 *)
(*   SpecRot     tryExtractWithRotations applied to bounded inputs;        *)
(*   SpecCodec   embedPayload / extractInternal on byte-exact canvases;    *)
(*   SpecRep     withRepetition / recoverRepetition on byte sequences;     *)
(*   SpecCanon   getPayloadHeader on records with reordered keys;          *)
(*   SpecLocate  locateFrame / parseFrame on decoded byte streams;         *)
(*   SpecCoeff   embedBitIntoCoeff / extractBitFromCoeff on integers.      *)
(***************************************************************************)
EXTENDS Integers, Sequences, FiniteSets, TLC

(***************************************************************************)
(* Bounds of the model.                                                    *)
(***************************************************************************)
MaxSlots == 2       \* ImageWorkflow instances alive at once (mounted or with a pending handler)
MaxCommits == 2     \* entries created over one behaviour
MaxEdits == 1       \* length of the edit log of one workflow instance
MaxPix == 2         \* distinct visual contents of a canvas
MaxKeys == 1        \* key pairs generated over one behaviour

(***************************************************************************)
(* Values.                                                                 *)
(***************************************************************************)
RSA == "rsa-pss-sha256"
ECC == "ecdsa-p256-sha256"
SigScheme == {RSA, ECC}

SignerInputs == {"", " ", "ann"}

\* the edit operations the controls record: a brightness change redraws the
\* pixels, the filter button "none" records an op and leaves them alone
EditOps == {"brightness", "filter"}

\* null of a string-valued hash field
NullHash == 0

\* canvas sizes (width, height) of the images offered for ingest
Dims == <<[w |-> 16, h |-> 17], [w |-> 64, h |-> 64]>>

NoSession == [exists |-> FALSE]
NoSnapshot == [present |-> FALSE]
Idle == [pc |-> "idle"]
Unreadable == [readable |-> FALSE]

VARIABLES
    activeTab,            \* App: the tab shown
    session,              \* App: SessionData or null
    preSessionState,      \* App: {signerInput, sigScheme}
    current,              \* slot of the mounted ImageWorkflow, 0 when another tab is shown
    wf,                   \* per ImageWorkflow instance: preSessionStep, isLoading, editLog, baseImage, canvas
    task,                 \* per ImageWorkflow instance: its pending async handler and what it closed over
    clock,                \* Date.now(), advanced by every entry built
    keyCounter,           \* key pairs generated so far
    embedded,             \* the payloads written into pixels so far; a canvas names one by index
    ingested,             \* history variable: per generated key pair, what its ingest found
    verificationResults   \* VersionHistory: results of the last handleVerifySession

sessVars == <<activeTab, session, preSessionState, current, wf, task, clock,
              keyCounter, embedded, ingested, verificationResults>>

VARIABLES
    verifyInput,          \* runVerification: payload, publicKeyPem, canvas hash, isUploadedImage
    verifyOutput          \* runVerification: what it returned
verVars == <<verifyInput, verifyOutput>>

VARIABLES
    rotSource,            \* tryExtractWithRotations: the source, as what each rotation of it holds
    rot                   \* tryExtractWithRotations: its locals and its result
rotVars == <<rotSource, rot>>

VARIABLES
    codecPayload,         \* embedPayload: the payload to embed
    codecCanvas,          \* embedPayload / extractInternal: the canvas
    codec                 \* position of the round trip and the ExtractionResult
codecVars == <<codecPayload, codecCanvas, codec>>

VARIABLES
    repFrame,             \* withRepetition: the frame bytes
    repData,              \* the tripled bytes, as they are when they are read back
    rep                   \* position of the repetition round trip and what recoverRepetition returned
repVars == <<repFrame, repData, rep>>

VARIABLES
    canonInput,           \* getPayloadHeader: the record it is given
    canonShuffled,        \* the same record with its keys in another order
    canon                 \* position of the run and the texts returned
canonVars == <<canonInput, canonShuffled, canon>>

VARIABLES
    coeffInput,           \* embedBitIntoCoeff: the coefficient and the bit
    coeff                 \* position of the run and the coefficients returned
coeffVars == <<coeffInput, coeff>>

VARIABLES
    locPayload,           \* locateFrame: the payload of the well-formed frame
    locPrefix,            \* the decoded bytes that come before that frame
    loc                   \* position of the run and the extraction result
locVars == <<locPayload, locPrefix, loc>>

vars == <<sessVars, verVars, rotVars, codecVars, repVars, canonVars, coeffVars, locVars>>

\* what an action of the session leaves alone
outsideSession == <<verVars, rotVars, codecVars, repVars, canonVars, coeffVars, locVars>>

Slots == 1..MaxSlots

(***************************************************************************)
(* cryptoService.ts                                                        *)
(***************************************************************************)

\* generateKeyPair: a fresh key pair of the requested scheme; the PEM texts
\* are represented by the pair's identity and scheme
generateKeyPair(scheme, id) ==
    [scheme |-> scheme,
     privateKeyPem |-> [id |-> id, scheme |-> scheme],
     publicKeyPem |-> [id |-> id, scheme |-> scheme]]

\* importPrivateKey / importPublicKey: importKey rejects a key whose
\* algorithm is not the one of the bundle of the requested scheme
importKeyOk(pem, scheme) == pem.scheme = scheme

\* a signPayload that signs with whatever key it is given
signPayloadAnyScheme(header, privateKeyPem, scheme) ==
    [ok |-> TRUE, value |-> [key |-> privateKeyPem.id, msg |-> header]]

\* signPayload: throws when the key cannot be imported under the scheme
signPayload(header, privateKeyPem, scheme) ==
    IF importKeyOk(privateKeyPem, scheme)
    THEN [ok |-> TRUE,
          value |-> [key |-> privateKeyPem.id, msg |-> header]]
    ELSE [ok |-> FALSE]

\* verifySignature: false on any import or decode error, else the verdict
\* of subtle.verify
verifySignature(header, signature, publicKeyPem, scheme) ==
    /\ importKeyOk(publicKeyPem, scheme)
    /\ signature.key = publicKeyPem.id
    /\ signature.msg = header

\* getPayloadHeader: the entry without its signature field, in canonical
\* form (a record has no key order)
getPayloadHeader(entry) ==
    [version |-> entry.version,
     sha256 |-> entry.sha256,
     parent_hash |-> entry.parent_hash,
     timestamp |-> entry.timestamp,
     signer |-> entry.signer,
     sig_scheme |-> entry.sig_scheme,
     edit_log |-> entry.edit_log,
     snapshot |-> entry.snapshot]

(***************************************************************************)
(* Canvases of the session: a canvas is its size, its visual content and   *)
(* the payload its pixels carry (an index into embedded, 0 for none).      *)
(***************************************************************************)
Blank == [dim |-> 0, pix |-> 0, wm |-> 0]

FreshFiles == {[dim |-> d, pix |-> 1, wm |-> 0] : d \in 1..Len(Dims)}

\* sha256 of the PNG encoding of a canvas: collision free, so an injective
\* code of the content
sha256(c) == 1 + c.wm + (MaxCommits + 2) * (c.pix + (MaxPix + 1) * c.dim)

\* applyEdits for one recorded operation: brightness redraws every pixel,
\* which also scrambles the low bits; filter "none" draws the base unchanged
EditPix(c, op) ==
    IF op = "brightness"
    THEN [c EXCEPT !.pix = (c.pix % MaxPix) + 1, !.wm = 0]
    ELSE c

RECURSIVE applyEdits(_, _)
applyEdits(baseImage, log) ==
    IF log = <<>> THEN baseImage
    ELSE EditPix(applyEdits(baseImage, SubSeq(log, 1, Len(log) - 1)), log[Len(log)])

\* createSnapshot: a thumbnail of what the canvas shows
createSnapshot(c) == [present |-> TRUE, pix |-> c.pix]

\* an image saved by handleDownload in an earlier session of another signer:
\* its pixels carry a chain of one entry, signed with a key pair (id 0) that
\* no session of this behaviour holds
ForeignSource == [dim |-> 2, pix |-> 1, wm |-> 0]
ForeignFile == [dim |-> 2, pix |-> 1, wm |-> 1]
ForeignHeader ==
    [version |-> 1,
     sha256 |-> sha256(ForeignSource),
     parent_hash |-> NullHash,
     timestamp |-> 0,
     signer |-> "bob",
     sig_scheme |-> RSA,
     edit_log |-> <<>>,
     snapshot |-> createSnapshot(ForeignSource)]
ForeignPayload ==
    [chain_id |-> sha256(ForeignSource),
     history |-> <<[version |-> 1,
                    sha256 |-> sha256(ForeignSource),
                    parent_hash |-> NullHash,
                    timestamp |-> 0,
                    signer |-> "bob",
                    sig_scheme |-> RSA,
                    edit_log |-> <<>>,
                    snapshot |-> createSnapshot(ForeignSource),
                    signature |-> [key |-> 0, msg |-> ForeignHeader]]>>]

(***************************************************************************)
(* watermarkService (second half of imageService.ts), as the session sees  *)
(* it: what fits, and which payload the pixels carry afterwards.  The      *)
(* byte-exact codec is modelled further down.                              *)
(***************************************************************************)
REPETITION_FACTOR == 3
MagicLength == 7      \* 'ICLSB01'
FooterLength == 7     \* 'ICEND01'

\* length of pako.deflate(JSON.stringify(payload)): grows with the history
BaseLen == 2
EntryLen == 10
CompressedLen(payload) == BaseLen + EntryLen * Len(payload.history)

\* framePayload: the length of the frame
FrameLength(payload) == MagicLength + 4 + 4 + CompressedLen(payload) + FooterLength

\* embedBytesAsLsb: requiredBits and availableBits
RequiredBits(payload) == FrameLength(payload) * REPETITION_FACTOR * 8
AvailableBits(c) == ((Dims[c.dim].w * Dims[c.dim].h * 4) \div 4) * 3

StoreIndex(store, payload) ==
    IF \E i \in 1..Len(store) : store[i] = payload
    THEN CHOOSE i \in 1..Len(store) : store[i] = payload
    ELSE Len(store) + 1

\* embedPayload: throws when the tripled frame does not fit (a failure of
\* the DCT layer is swallowed), else the canvas carries the payload
EmbedCanvas(c, payload, store) ==
    IF RequiredBits(payload) > AvailableBits(c)
    THEN [ok |-> FALSE]
    ELSE [ok |-> TRUE,
          canvas |-> [c EXCEPT !.wm = StoreIndex(store, payload)],
          store |-> IF StoreIndex(store, payload) > Len(store)
                    THEN Append(store, payload) ELSE store]

\* extractPayloadWithDetails(...).payload: null when the pixels carry none
HasPayload(c, store) == c.wm # 0 /\ c.wm <= Len(store)
ExtractCanvas(c, store) == store[c.wm]

(***************************************************************************)
(* VersionHistory: runVerification                                         *)
(***************************************************************************)
HashMismatchText == "Image hash does not match committed version."
SignatureInvalidText == " Signature invalid."
ChainBrokenText == " Hash chain broken."

\* a turn of the loop that compares the hashes whatever isUploadedImage says
VerifyEntryIgnoresFlag(payload, i, publicKeyPem, hasCanvas, currentHash, isUploadedImage) ==
    LET entry == payload.history[i]
        previousHash == IF i = 1 THEN NullHash ELSE payload.history[i - 1].sha256
        isSignatureValid ==
            verifySignature(getPayloadHeader(entry), entry.signature,
                            publicKeyPem, entry.sig_scheme)
        isChainLinkValid == entry.parent_hash = previousHash
        mismatch == /\ hasCanvas
                    /\ i = Len(payload.history)
                    /\ entry.sha256 # currentHash
    IN [entry |-> entry,
        mismatch |-> mismatch,
        verification |->
            [isSignatureValid |-> isSignatureValid,
             isChainLinkValid |-> isChainLinkValid,
             error |-> (IF mismatch THEN <<HashMismatchText>> ELSE <<>>)
                       \o (IF ~isSignatureValid THEN <<SignatureInvalidText>> ELSE <<>>)
                       \o (IF ~isChainLinkValid THEN <<ChainBrokenText>> ELSE <<>>)]]

\* one turn of the loop of runVerification, for the entry at index i
\* (1-based); previousHash is null before the first entry
VerifyEntry(payload, i, publicKeyPem, hasCanvas, currentHash, isUploadedImage) ==
    LET entry == payload.history[i]
        previousHash == IF i = 1 THEN NullHash ELSE payload.history[i - 1].sha256
        isSignatureValid ==
            verifySignature(getPayloadHeader(entry), entry.signature,
                            publicKeyPem, entry.sig_scheme)
        isChainLinkValid == entry.parent_hash = previousHash
        mismatch == /\ hasCanvas
                    /\ i = Len(payload.history)
                    /\ ~isUploadedImage
                    /\ entry.sha256 # currentHash
    IN [entry |-> entry,
        mismatch |-> mismatch,
        verification |->
            [isSignatureValid |-> isSignatureValid,
             isChainLinkValid |-> isChainLinkValid,
             error |-> (IF mismatch THEN <<HashMismatchText>> ELSE <<>>)
                       \o (IF ~isSignatureValid THEN <<SignatureInvalidText>> ELSE <<>>)
                       \o (IF ~isChainLinkValid THEN <<ChainBrokenText>> ELSE <<>>)]]

runVerification(payload, publicKeyPem, hasCanvas, currentHash, isUploadedImage) ==
    LET turns == [i \in 1..Len(payload.history) |->
                    VerifyEntry(payload, i, publicKeyPem, hasCanvas,
                                currentHash, isUploadedImage)]
    IN [results |-> [i \in 1..Len(payload.history) |->
                        [entry |-> turns[i].entry,
                         verification |-> turns[i].verification]],
        hashMismatch |-> \E i \in 1..Len(payload.history) : turns[i].mismatch]

(***************************************************************************)
(* The session: App.tsx and components/ImageWorkflow.tsx                   *)
(***************************************************************************)
InitialPreSessionState == [signerInput |-> "", sigScheme |-> RSA]

\* component state of an ImageWorkflow that shows no image
FreeWf == [preSessionStep |-> "keys", isLoading |-> FALSE, editLog |-> <<>>,
           baseImage |-> Blank, canvas |-> Blank]

NoResults == [results |-> <<>>, hashMismatch |-> FALSE]

\* the effects of ImageWorkflow that depend on the session: without a
\* session the step returns to 'keys' and the edits are reset; a new
\* currentImageSrc is loaded into the canvas
SessionEffects(w, old, new) ==
    IF ~new.exists
    THEN [w EXCEPT !.preSessionStep = "keys", !.editLog = <<>>,
                   !.baseImage = Blank, !.canvas = Blank]
    ELSE IF ~old.exists \/ old.currentImageSrc # new.currentImageSrc
              \/ w.baseImage # new.currentImageSrc
         THEN [w EXCEPT !.baseImage = new.currentImageSrc,
                        !.canvas = applyEdits(new.currentImageSrc, w.editLog)]
         ELSE w

\* what the mounted workflow renders
EditorShown == current # 0 /\ session.exists
SignerStepShown == /\ current # 0 /\ ~session.exists
                   /\ ~wf[current].isLoading
                   /\ wf[current].preSessionStep = "keys"
UploadStepShown == /\ current # 0 /\ ~session.exists
                   /\ ~wf[current].isLoading
                   /\ wf[current].preSessionStep = "upload"

\* handleSessionUpdate of App, followed by the effects of the mounted
\* workflow; w is the state the handler running in slot m leaves behind
SessionUpdate(m, w, newSession) ==
    /\ session' = newSession
    /\ preSessionState' = IF newSession.exists THEN preSessionState
                          ELSE InitialPreSessionState
    /\ wf' = [k \in Slots |->
                IF k = current THEN SessionEffects(IF k = m THEN w ELSE wf[k],
                                                   session, newSession)
                ELSE IF k = m THEN FreeWf
                ELSE wf[k]]

\* a handler ends without touching the session
HandlerEnds(m) ==
    wf' = [wf EXCEPT ![m] = IF m = current THEN [@ EXCEPT !.isLoading = FALSE]
                            ELSE FreeWf]

SessionInit ==
    /\ activeTab = "workflow"
    /\ session = NoSession
    /\ preSessionState = InitialPreSessionState
    /\ current = 1
    /\ wf = [m \in Slots |-> FreeWf]
    /\ task = [m \in Slots |-> Idle]
    /\ clock = 0
    /\ keyCounter = 0
    /\ embedded = <<ForeignPayload>>
    /\ ingested = <<>>
    /\ verificationResults = NoResults

\* TabButton onClick: the tab content is replaced, so the component shown
\* before is unmounted and loses its state; its pending handler runs on
SwitchTab(tab) ==
    /\ tab # activeTab
    /\ tab = "workflow" => \E m \in Slots : task[m].pc = "idle"
    /\ activeTab' = tab
    /\ LET m == CHOOSE k \in Slots : task[k].pc = "idle"
                   /\ \A j \in Slots : task[j].pc = "idle" => k <= j
           unmounted == [k \in Slots |->
                           IF k = current /\ task[k].pc = "idle" THEN FreeWf ELSE wf[k]]
       IN IF tab = "workflow"
          THEN /\ current' = m
               /\ wf' = [unmounted EXCEPT ![m] =
                            SessionEffects(FreeWf, NoSession, session)]
          ELSE /\ current' = 0
               /\ wf' = unmounted
    /\ verificationResults' = IF activeTab = "history" THEN NoResults
                              ELSE verificationResults
    /\ UNCHANGED outsideSession
    /\ UNCHANGED <<session, preSessionState, task, clock, keyCounter, embedded,
                   ingested>>

SetSignerInput(value) ==
    /\ SignerStepShown
    /\ value # preSessionState.signerInput
    /\ preSessionState' = [preSessionState EXCEPT !.signerInput = value]
    /\ UNCHANGED outsideSession
    /\ UNCHANGED <<activeTab, session, current, wf, task, clock, keyCounter,
                   embedded, ingested, verificationResults>>

SetSigScheme(value) ==
    /\ SignerStepShown
    /\ value # preSessionState.sigScheme
    /\ preSessionState' = [preSessionState EXCEPT !.sigScheme = value]
    /\ UNCHANGED outsideSession
    /\ UNCHANGED <<activeTab, session, current, wf, task, clock, keyCounter,
                   embedded, ingested, verificationResults>>

\* String.prototype.trim of the signer inputs of the model
Trim(text) == IF text = " " THEN "" ELSE text

\* a handleContinueToUpload that does not look at the signer name
HandleContinueToUploadUnchecked ==
    /\ SignerStepShown
    /\ wf' = [wf EXCEPT ![current].preSessionStep = "upload"]
    /\ UNCHANGED outsideSession
    /\ UNCHANGED <<activeTab, session, preSessionState, current, task, clock,
                   keyCounter, embedded, ingested, verificationResults>>

HandleContinueToUpload ==
    /\ SignerStepShown
    /\ Trim(preSessionState.signerInput) # ""
    /\ wf' = [wf EXCEPT ![current].preSessionStep = "upload"]
    /\ UNCHANGED outsideSession
    /\ UNCHANGED <<activeTab, session, preSessionState, current, task, clock,
                   keyCounter, embedded, ingested, verificationResults>>

\* the button "Back to signer configuration"
BackToKeys ==
    /\ UploadStepShown
    /\ wf' = [wf EXCEPT ![current].preSessionStep = "keys"]
    /\ UNCHANGED outsideSession
    /\ UNCHANGED <<activeTab, session, preSessionState, current, task, clock,
                   keyCounter, embedded, ingested, verificationResults>>

\* const canvas = canvasRef.current of handleCommit: the element the handler
\* works on.  While the editor is rendered it is the canvas of the workflow;
\* when the editor is taken down under a pending commit the handler keeps the
\* element, with the pixels it had, for itself
Detach(t, canvas) ==
    IF t.pc = "sign" /\ ~t.detached
    THEN [t EXCEPT !.detached = TRUE, !.canvas = canvas]
    ELSE t

TaskCanvas(m) == IF task[m].detached THEN task[m].canvas ELSE wf[m].canvas

\* onPointerUp / onClick / onBlur of an edit control: recordEdit, and the
\* canvas is redrawn from the base image by applyEdits
RecordEdit(op) ==
    /\ EditorShown
    /\ Len(wf[current].editLog) < MaxEdits
    /\ LET log == Append(wf[current].editLog, op)
       IN wf' = [wf EXCEPT ![current].editLog = log,
                           ![current].canvas = applyEdits(wf[current].baseImage, log)]
    /\ UNCHANGED outsideSession
    /\ UNCHANGED <<activeTab, session, preSessionState, current, task, clock,
                   keyCounter, embedded, ingested, verificationResults>>

\* the button "Reset Session": onSessionUpdate(null)
ResetSession ==
    /\ EditorShown
    /\ SessionUpdate(0, FreeWf, NoSession)
    /\ task' = [task EXCEPT ![current] = Detach(@, wf[current].canvas)]
    /\ UNCHANGED outsideSession
    /\ UNCHANGED <<activeTab, current, clock, keyCounter, embedded,
                   ingested, verificationResults>>

PendingOf(pc) == Cardinality({m \in Slots : task[m].pc = pc})

\* handleFileChange up to its first await: the handler closes over the
\* signer name and the scheme of the render it was created in
HandleFileChange(file) ==
    /\ UploadStepShown
    /\ keyCounter + PendingOf("ingest") < MaxKeys
    /\ task' = [task EXCEPT ![current] =
                  [pc |-> "ingest", file |-> file,
                   signerInput |-> preSessionState.signerInput,
                   sigScheme |-> preSessionState.sigScheme]]
    /\ wf' = [wf EXCEPT ![current].isLoading = TRUE]
    /\ UNCHANGED outsideSession
    /\ UNCHANGED <<activeTab, session, preSessionState, current, clock,
                   keyCounter, embedded, ingested, verificationResults>>

\* a handleFileChange that starts a new chain whatever the image carries
IngestCompletesFresh(m) ==
    /\ task[m].pc = "ingest"
    /\ task[m].file # Unreadable
    /\ LET t == task[m]
           keyPair == generateKeyPair(t.sigScheme, keyCounter + 1)
           payload == [chain_id |-> sha256(t.file), history |-> <<>>]
           newSession == [exists |-> TRUE,
                          signer |-> t.signerInput,
                          payload |-> payload,
                          keys |-> [privateKeyPem |-> keyPair.privateKeyPem,
                                    publicKeyPem |-> keyPair.publicKeyPem],
                          currentImageSrc |-> t.file]
           w == [wf[m] EXCEPT !.editLog = <<>>, !.preSessionStep = "upload",
                              !.isLoading = FALSE]
       IN /\ SessionUpdate(m, w, newSession)
          /\ ingested' = Append(ingested, [readable |-> TRUE,
                                           adopted |-> HasPayload(t.file, embedded),
                                           chain_id |-> payload.chain_id,
                                           history |-> payload.history])
    /\ keyCounter' = keyCounter + 1
    /\ task' = [task EXCEPT ![m] = Idle]
    /\ UNCHANGED outsideSession
    /\ UNCHANGED <<activeTab, current, clock, embedded,
                   verificationResults>>

\* handleFileChange from generateKeyPair to onSessionUpdate: an existing
\* payload is adopted, else the chain starts with the hash of the image
IngestCompletes(m) ==
    /\ task[m].pc = "ingest"
    /\ task[m].file # Unreadable
    /\ LET t == task[m]
           keyPair == generateKeyPair(t.sigScheme, keyCounter + 1)
           found == HasPayload(t.file, embedded)
           payload == IF found THEN ExtractCanvas(t.file, embedded)
                      ELSE [chain_id |-> sha256(t.file), history |-> <<>>]
           newSession == [exists |-> TRUE,
                          signer |-> t.signerInput,
                          payload |-> payload,
                          keys |-> [privateKeyPem |-> keyPair.privateKeyPem,
                                    publicKeyPem |-> keyPair.publicKeyPem],
                          currentImageSrc |-> t.file]
           w == [wf[m] EXCEPT !.editLog = <<>>, !.preSessionStep = "upload",
                              !.isLoading = FALSE]
       IN /\ SessionUpdate(m, w, newSession)
          /\ ingested' = Append(ingested, [readable |-> TRUE, adopted |-> found,
                                           chain_id |-> payload.chain_id,
                                           history |-> payload.history])
    /\ keyCounter' = keyCounter + 1
    /\ task' = [task EXCEPT ![m] = Idle]
    /\ UNCHANGED outsideSession
    /\ UNCHANGED <<activeTab, current, clock, embedded,
                   verificationResults>>

\* handleFileChange when renderCanvasFromImage rejects: the catch block
IngestFails(m) ==
    /\ task[m].pc = "ingest"
    /\ task[m].file = Unreadable
    /\ keyCounter' = keyCounter + 1
    /\ ingested' = Append(ingested, [readable |-> FALSE, adopted |-> FALSE,
                                     chain_id |-> NullHash, history |-> <<>>])
    /\ HandlerEnds(m)
    /\ task' = [task EXCEPT ![m] = Idle]
    /\ UNCHANGED outsideSession
    /\ UNCHANGED <<activeTab, session, preSessionState, current, clock,
                   embedded, verificationResults>>

\* handleCommit up to its first await: the guards, what the handler closes
\* over (session, editLog and the scheme of its render), and canvas.toBlob,
\* which copies the bitmap that is hashed
HandleCommit ==
    /\ EditorShown
    /\ ~wf[current].isLoading
    /\ ~(Len(session.payload.history) > 0 /\ Len(wf[current].editLog) = 0)
    /\ clock + PendingOf("sign") < MaxCommits
    /\ task' = [task EXCEPT ![current] =
                  [pc |-> "sign", session |-> session,
                   editLog |-> wf[current].editLog,
                   sigScheme |-> preSessionState.sigScheme,
                   currentHash |-> sha256(wf[current].canvas),
                   detached |-> FALSE, canvas |-> Blank]]
    /\ wf' = [wf EXCEPT ![current].isLoading = TRUE]
    /\ UNCHANGED outsideSession
    /\ UNCHANGED <<activeTab, session, preSessionState, current, clock,
                   keyCounter, embedded, ingested, verificationResults>>

\* an entry numbered by the length of the history and linked to nothing
NewEntryUnlinked(t, canvas, now) ==
    [version |-> Len(t.session.payload.history),
     sha256 |-> t.currentHash,
     parent_hash |-> NullHash,
     timestamp |-> now,
     signer |-> t.session.signer,
     sig_scheme |-> t.sigScheme,
     edit_log |-> t.editLog,
     snapshot |-> createSnapshot(canvas)]

\* the entry handleCommit builds from the session it closed over
NewEntry(t, canvas, now) ==
    LET history == t.session.payload.history
        isInitialVersion == Len(history) = 0
        lastVersion == IF isInitialVersion THEN 0 ELSE history[Len(history)].version
        lastHash == IF isInitialVersion THEN NullHash ELSE history[Len(history)].sha256
    IN [version |-> lastVersion + 1,
        sha256 |-> t.currentHash,
        parent_hash |-> lastHash,
        timestamp |-> now,
        signer |-> t.session.signer,
        sig_scheme |-> t.sigScheme,
        edit_log |-> t.editLog,
        snapshot |-> IF isInitialVersion \/ Len(t.editLog) > 0
                     THEN createSnapshot(canvas) ELSE NoSnapshot]

\* a payload whose chain_id is taken from the image being committed
UpdatedPayloadRekeyed(t, newEntry, signature) ==
    [chain_id |-> newEntry.sha256,
     history |-> Append(t.session.payload.history,
                        [version |-> newEntry.version,
                         sha256 |-> newEntry.sha256,
                         parent_hash |-> newEntry.parent_hash,
                         timestamp |-> newEntry.timestamp,
                         signer |-> newEntry.signer,
                         sig_scheme |-> newEntry.sig_scheme,
                         edit_log |-> newEntry.edit_log,
                         snapshot |-> newEntry.snapshot,
                         signature |-> signature])]

\* the payload handleCommit embeds
UpdatedPayload(t, newEntry, signature) ==
    [chain_id |-> t.session.payload.chain_id,
     history |-> Append(t.session.payload.history,
                        [version |-> newEntry.version,
                         sha256 |-> newEntry.sha256,
                         parent_hash |-> newEntry.parent_hash,
                         timestamp |-> newEntry.timestamp,
                         signer |-> newEntry.signer,
                         sig_scheme |-> newEntry.sig_scheme,
                         edit_log |-> newEntry.edit_log,
                         snapshot |-> newEntry.snapshot,
                         signature |-> signature])]

CommitSignature(t, newEntry) ==
    signPayload(getPayloadHeader(newEntry), t.session.keys.privateKeyPem, t.sigScheme)

\* what handleCommit has in hand after signPayload and embedPayload
CommitOutcome(m) ==
    LET t == task[m]
        newEntry == NewEntry(t, TaskCanvas(m), clock + 1)
        signed == CommitSignature(t, newEntry)
    IN IF ~signed.ok THEN [ok |-> FALSE, why |-> "sign"]
       ELSE LET updatedPayload == UpdatedPayload(t, newEntry, signed.value)
                embed == EmbedCanvas(TaskCanvas(m), updatedPayload, embedded)
            IN IF ~embed.ok THEN [ok |-> FALSE, why |-> "capacity"]
               ELSE [ok |-> TRUE, updatedPayload |-> updatedPayload,
                     canvas |-> embed.canvas, store |-> embed.store]

\* handleCommit: createSnapshot, newEntry, signPayload, embedPayload and
\* canvas.toDataURL
CommitEmbeds(m) ==
    /\ task[m].pc = "sign"
    /\ CommitOutcome(m).ok
    /\ clock' = clock + 1
    /\ embedded' = CommitOutcome(m).store
    /\ wf' = IF task[m].detached THEN wf
             ELSE [wf EXCEPT ![m].canvas = CommitOutcome(m).canvas]
    /\ task' = [task EXCEPT ![m] =
                  [pc |-> "finish", session |-> task[m].session,
                   updatedPayload |-> CommitOutcome(m).updatedPayload,
                   updatedDataUrl |-> CommitOutcome(m).canvas]]
    /\ UNCHANGED outsideSession
    /\ UNCHANGED <<activeTab, session, preSessionState, current,
                   keyCounter, ingested, verificationResults>>

\* a catch block that keeps the entry of the commit that failed
CommitFailsAppends(m) ==
    /\ task[m].pc = "sign"
    /\ ~CommitOutcome(m).ok
    /\ clock' = clock + 1
    /\ LET t == task[m]
           newEntry == NewEntry(t, TaskCanvas(m), clock + 1)
           kept == UpdatedPayload(t, newEntry, [key |-> 0, msg |-> getPayloadHeader(newEntry)])
       IN SessionUpdate(m, [wf[m] EXCEPT !.isLoading = FALSE],
                        [t.session EXCEPT !.payload = kept])
    /\ task' = [task EXCEPT ![m] = Idle]
    /\ UNCHANGED outsideSession
    /\ UNCHANGED <<activeTab, current, keyCounter, embedded, ingested,
                   verificationResults>>

\* handleCommit when signPayload or embedPayload throws: the catch block
CommitFails(m) ==
    /\ task[m].pc = "sign"
    /\ ~CommitOutcome(m).ok
    /\ clock' = clock + 1
    /\ HandlerEnds(m)
    /\ task' = [task EXCEPT ![m] = Idle]
    /\ UNCHANGED outsideSession
    /\ UNCHANGED <<activeTab, session, preSessionState, current,
                   keyCounter, embedded, ingested, verificationResults>>

\* handleCommit: loadImageIntoCanvas, onSessionUpdate({...session, ...})
\* with the session the handler closed over, resetEdits
CommitCompletes(m) ==
    /\ task[m].pc = "finish"
    /\ LET t == task[m]
           w == [wf[m] EXCEPT !.baseImage = t.updatedDataUrl,
                              !.canvas = t.updatedDataUrl,
                              !.editLog = <<>>, !.isLoading = FALSE]
       IN SessionUpdate(m, w, [t.session EXCEPT !.payload = t.updatedPayload,
                                                !.currentImageSrc = t.updatedDataUrl])
    /\ task' = [task EXCEPT ![m] = Idle]
    /\ UNCHANGED outsideSession
    /\ UNCHANGED <<activeTab, current, clock, keyCounter, embedded,
                   ingested, verificationResults>>

\* VersionHistory.handleVerifySession: the canvas is rendered from
\* session.currentImageSrc and the session's own public key is used
HandleVerifySession ==
    /\ activeTab = "history"
    /\ session.exists
    /\ verificationResults' =
          runVerification(session.payload, session.keys.publicKeyPem, TRUE,
                          sha256(session.currentImageSrc), FALSE)
    /\ UNCHANGED outsideSession
    /\ UNCHANGED <<activeTab, session, preSessionState, current, wf, task, clock,
                   keyCounter, embedded, ingested>>

Files == FreshFiles \cup {ForeignFile, Unreadable}
\* the Demo tab holds no state of the session; leaving the workflow for it
\* is leaving it for the history tab
Tabs == {"workflow", "history"}

Next ==
    \/ \E tab \in Tabs : SwitchTab(tab)
    \/ \E value \in SignerInputs : SetSignerInput(value)
    \/ \E value \in SigScheme : SetSigScheme(value)
    \/ HandleContinueToUpload
    \/ BackToKeys
    \/ \E op \in EditOps : RecordEdit(op)
    \/ ResetSession
    \/ \E file \in Files : HandleFileChange(file)
    \/ \E m \in Slots : IngestCompletes(m)
    \/ \E m \in Slots : IngestFails(m)
    \/ HandleCommit
    \/ \E m \in Slots : CommitEmbeds(m)
    \/ \E m \in Slots : CommitFails(m)
    \/ \E m \in Slots : CommitCompletes(m)
    \/ HandleVerifySession

\* the other specifications at rest
VerifyIdle == verifyInput = 0 /\ verifyOutput = [done |-> FALSE]
RotIdle == rotSource = 0 /\ rot = [pc |-> "idle"]
CodecIdle == codecPayload = 0 /\ codecCanvas = 0 /\ codec = [pc |-> "idle"]
RepIdle == repFrame = <<>> /\ repData = <<>> /\ rep = [pc |-> "idle"]
CanonIdle == canonInput = <<>> /\ canonShuffled = <<>> /\ canon = [pc |-> "idle"]
CoeffIdle == coeffInput = <<>> /\ coeff = [pc |-> "idle"]
LocIdle == locPayload = 0 /\ locPrefix = <<>> /\ loc = [pc |-> "idle"]

Init == SessionInit /\ VerifyIdle /\ RotIdle /\ CodecIdle /\ RepIdle /\ CanonIdle
        /\ CoeffIdle /\ LocIdle

Spec == Init /\ [][Next]_vars

(***************************************************************************)
(* Properties of the session.                                              *)
(***************************************************************************)

\* what the ingest that generated the key pair of a session found
IngestOf(s) == ingested[s.keys.publicKeyPem.id]

\* the session started from an image that carried no payload
StartedFresh(s) == s.exists /\ ~IngestOf(s).adopted

\* the payloads a commit has produced: the one of the session and the ones
\* pending handlers are about to hand to onSessionUpdate
CommittedPayloads ==
    {[of |-> task[m].session, payload |-> task[m].updatedPayload] :
        m \in {k \in Slots : task[k].pc = "finish"}}
    \cup (IF session.exists THEN {[of |-> session, payload |-> session.payload]}
          ELSE {})

IsChain(history) ==
    \A i \in 1..Len(history) :
        IF i = 1
        THEN history[1].version = 1 /\ history[1].parent_hash = NullHash
        ELSE /\ history[i].version = history[i - 1].version + 1
             /\ history[i].parent_hash = history[i - 1].sha256

\* C1: in a session started from an image without payload, every history
\* that commits have produced begins with version 1 and a null parent_hash,
\* and each later entry has the version of its predecessor plus one and the
\* sha256 of its predecessor as parent_hash.
C1_ChainStructure ==
    \A c \in CommittedPayloads : StartedFresh(c.of) => IsChain(c.payload.history)

C1_Witness ==
    /\ StartedFresh(session)
    /\ Len(session.payload.history) = 2
    /\ session.payload.history[2].parent_hash # NullHash

\* C2: when a commit hands its payload to the session, the history of the
\* session becomes the history it had plus exactly one entry, whatever the
\* interleaving of the commit handlers (a commit of a remounted workflow
\* started while another is pending included).
C2_CommitAppendsOne ==
    [][\A m \in Slots :
          (/\ task[m].pc = "finish"
           /\ task'[m].pc = "idle"
           /\ session.exists
           /\ session.keys = task[m].session.keys)
          => /\ Len(session'.payload.history) = Len(session.payload.history) + 1
             /\ SubSeq(session'.payload.history, 1, Len(session.payload.history))
                  = session.payload.history]_vars

\* C3: a chain created within one session verifies: runVerification with
\* the public key of the session finds the signature and the chain link of
\* every entry valid.
C3_SessionChainVerifies ==
    StartedFresh(session) =>
        LET run == runVerification(session.payload, session.keys.publicKeyPem,
                                   TRUE, sha256(session.currentImageSrc), FALSE)
        IN \A i \in 1..Len(run.results) :
              /\ run.results[i].verification.isSignatureValid
              /\ run.results[i].verification.isChainLinkValid

C3_Witness ==
    /\ StartedFresh(session)
    /\ Len(session.payload.history) = 2
    /\ verificationResults =
          runVerification(session.payload, session.keys.publicKeyPem,
                          TRUE, sha256(session.currentImageSrc), FALSE)

C12_CapacityFailureKeepsPayload ==
    [][\A m \in Slots :
          (/\ task[m].pc = "sign"
           /\ ~CommitOutcome(m).ok
           /\ CommitOutcome(m).why = "capacity")
          => /\ task'[m].pc # "finish"
             /\ task'[m].pc = "idle" => session' = session]_vars

\* a second commit on the small image has failed for capacity: two entries
\* were built, one payload was embedded, and the edits of the failed commit
\* are still in the log
C12_Witness ==
    /\ session.exists
    /\ Len(session.payload.history) = 1
    /\ clock = 2
    /\ Len(embedded) = 2
    /\ \A m \in Slots : task[m].pc = "idle"
    /\ session.keys.privateKeyPem.scheme = preSessionState.sigScheme
    /\ current # 0
    /\ wf[current].editLog # <<>>
    /\ RequiredBits([chain_id |-> 0, history |-> <<0, 0>>])
          > AvailableBits(session.currentImageSrc)

C24_AdoptsEmbeddedPayload ==
    /\ [][\A m \in Slots :
             (task[m].pc = "ingest" /\ task'[m].pc = "idle" /\ task[m].file # Unreadable)
             => /\ session'.exists
                /\ HasPayload(task[m].file, embedded)
                   => session'.payload = ExtractCanvas(task[m].file, embedded)
                /\ session'.payload.history = <<>>
                   => /\ ~HasPayload(task[m].file, embedded)
                      /\ session'.payload.chain_id = sha256(task[m].file)]_vars
    /\ [][\A m \in Slots :
             (/\ task[m].pc = "finish" /\ task'[m].pc = "idle"
              /\ IngestOf(task[m].session).adopted
              /\ task[m].session.payload.history = IngestOf(task[m].session).history)
             => LET adopted == IngestOf(task[m].session).history
                    last == adopted[Len(adopted)]
                    history == session'.payload.history
                IN /\ session'.payload.chain_id = IngestOf(task[m].session).chain_id
                   /\ Len(history) = Len(adopted) + 1
                   /\ SubSeq(history, 1, Len(adopted)) = adopted
                   /\ history[Len(history)].version = last.version + 1
                   /\ history[Len(history)].parent_hash = last.sha256]_vars

C24_Witness ==
    /\ session.exists
    /\ IngestOf(session).adopted
    /\ IngestOf(session).history = ForeignPayload.history
    /\ session.payload.chain_id = ForeignPayload.chain_id
    /\ Len(session.payload.history) = 2
    /\ session.payload.history[1] = ForeignPayload.history[1]
    /\ session.payload.history[2].version = 2
    /\ session.payload.history[2].parent_hash = sha256(ForeignSource)

\* C25: after a successful commit, verifying the active session (canvas
\* rendered from session.currentImageSrc, is_uploaded = false) reports no
\* hash mismatch for the last entry.
C25_NoMismatchAfterCommit ==
    [][(/\ activeTab = "history"
        /\ session.exists
        /\ session' = session
        /\ Len(session.payload.history) > Len(IngestOf(session).history)
        /\ verificationResults' # verificationResults
        /\ Len(verificationResults'.results) = Len(session.payload.history))
       => ~verificationResults'.hashMismatch]_vars

\* C30: whenever a session exists, the scheme its key pair was generated
\* for is the scheme a commit signs with and records in sig_scheme, under
\* every interleaving of a pending ingest with tab switches and changes of
\* the pre-session scheme selection: a commit never signs with a key of the
\* other scheme.
C30_SchemeAgreement ==
    \A m \in Slots :
        task[m].pc = "sign"
        => task[m].sigScheme = task[m].session.keys.privateKeyPem.scheme

\* C11: an empty session (the state "Reset Session" leaves, no key pair,
\* signer or payload) stays empty until a new image is ingested: the only
\* step that fills it is the completion of an ingest, which generates a key
\* pair; a commit handler started before the reset and completing after it
\* does not fill it.
C11_ResetStaysEmpty ==
    [][(~session.exists /\ session'.exists) => keyCounter' = keyCounter + 1]_vars

\* the operations of EditOperation other than brightness and contrast
DestructiveOps == {"filter", "crop", "rotate", "compress", "text"}

\* C18: every entry produced by a commit carries a snapshot if and only if
\* it is the initial version (version 1) or its edit log contains at least
\* one destructive op (filter, crop, rotate, compress, text); an entry of a
\* later version whose edit log holds only brightness/contrast ops has none.
C18_SnapshotRule ==
    \A c \in CommittedPayloads :
        StartedFresh(c.of) =>
            \A i \in 1..Len(c.payload.history) :
                LET entry == c.payload.history[i]
                IN entry.snapshot.present
                   <=> \/ entry.version = 1
                       \/ \E k \in 1..Len(entry.edit_log) :
                             entry.edit_log[k] \in DestructiveOps

(***************************************************************************)
(* SpecVerify: runVerification applied to bounded payloads.  The payloads  *)
(* are all the histories of up to MaxChain entries over small sets of      *)
(* field values; an entry carries a signature made over the entry as it    *)
(* is, or over the entry as it was before its timestamp was altered.       *)
(***************************************************************************)
MaxChain == 2       \* entries of a payload that is verified
MaxVersion == 3     \* version numbers 1..MaxVersion
MaxHash == 2        \* image hashes 1..MaxHash
MaxStamp == 2       \* timestamps 1..MaxStamp
MaxSigners == 2     \* key pairs 1..MaxSigners

PublicKeyOf(k) == generateKeyPair(RSA, k).publicKeyPem

VerifyHeaders ==
    [version : 1..MaxVersion,
     sha256 : 1..MaxHash,
     parent_hash : {NullHash} \cup (1..MaxHash),
     timestamp : 1..MaxStamp,
     signer : {"ann"},
     sig_scheme : {RSA},
     edit_log : {<<>>},
     snapshot : {NoSnapshot}]

\* the header with another timestamp
Restamped(header) == [header EXCEPT !.timestamp = (header.timestamp % MaxStamp) + 1]

\* a HistoryEntry: a header and the signature stored with it
WithSignature(header, signature) ==
    [version |-> header.version,
     sha256 |-> header.sha256,
     parent_hash |-> header.parent_hash,
     timestamp |-> header.timestamp,
     signer |-> header.signer,
     sig_scheme |-> header.sig_scheme,
     edit_log |-> header.edit_log,
     snapshot |-> header.snapshot,
     signature |-> signature]

VerifyEntries ==
    {WithSignature(h, [key |-> k, msg |-> m]) :
        h \in VerifyHeaders, k \in 1..MaxSigners, m \in VerifyHeaders}

SignedAsIsOrRestamped(entry) ==
    \/ entry.signature.msg = getPayloadHeader(entry)
    \/ entry.signature.msg = Restamped(getPayloadHeader(entry))

VerifyHistories ==
    UNION {[1..n -> {e \in VerifyEntries : SignedAsIsOrRestamped(e)}] : n \in 0..MaxChain}

VerifyInputs ==
    [payload : {[chain_id |-> 1, history |-> h] : h \in VerifyHistories},
     publicKeyPem : {PublicKeyOf(k) : k \in 1..MaxSigners},
     currentHash : 1..MaxHash]

NotVerified == [done |-> FALSE]

\* the variables of the session where no session was started
SessionIdle == SessionInit

VerifyInit ==
    /\ SessionIdle
    /\ verifyInput \in VerifyInputs
    /\ verifyOutput = NotVerified
    /\ RotIdle
    /\ CodecIdle
    /\ RepIdle
    /\ CanonIdle
    /\ CoeffIdle
    /\ LocIdle

\* runVerification as handleVerifyExtracted calls it: no canvas, and
\* isUploadedImage = true
VerifyUploaded ==
    /\ ~verifyOutput.done
    /\ LET run == runVerification(verifyInput.payload, verifyInput.publicKeyPem,
                                  FALSE, NullHash, TRUE)
       IN verifyOutput' = [done |-> TRUE, canvas |-> FALSE,
                           results |-> run.results, hashMismatch |-> run.hashMismatch]
    /\ UNCHANGED <<sessVars, verifyInput, rotVars, codecVars, repVars, canonVars, coeffVars, locVars>>

\* runVerification as handleVerifySession calls it: with the canvas whose
\* hash is currentHash
VerifyWithCanvas ==
    /\ ~verifyOutput.done
    /\ LET run == runVerification(verifyInput.payload, verifyInput.publicKeyPem,
                                  TRUE, verifyInput.currentHash, FALSE)
       IN verifyOutput' = [done |-> TRUE, canvas |-> TRUE,
                           results |-> run.results, hashMismatch |-> run.hashMismatch]
    /\ UNCHANGED <<sessVars, verifyInput, rotVars, codecVars, repVars, canonVars, coeffVars, locVars>>

VerifyNext ==
    \/ VerifyUploaded
    \/ VerifyWithCanvas

SpecVerify == VerifyInit /\ [][VerifyNext]_vars

\* a chain of two entries, both signed by the holder of the public key that
\* verifies, of which only the timestamp of the first entry was altered
\* after signing
FirstTimestampAltered ==
    LET history == verifyInput.payload.history
    IN /\ Len(history) = 2
       /\ IsChain(history)
       /\ \E k \in 1..MaxSigners :
             /\ verifyInput.publicKeyPem = PublicKeyOf(k)
             /\ history[1].signature =
                   [key |-> k, msg |-> Restamped(getPayloadHeader(history[1]))]
             /\ history[2].signature =
                   [key |-> k, msg |-> getPayloadHeader(history[2])]

\* C6: when only history[0].timestamp of a validly signed two-entry chain
\* was altered, verification with the signer's public key reports entry 0
\* with an invalid signature and entry 1 with an invalid chain link.
C6_TimestampTamperBreaksLink ==
    (verifyOutput.done /\ FirstTimestampAltered)
    => /\ ~verifyOutput.results[1].verification.isSignatureValid
       /\ ~verifyOutput.results[2].verification.isChainLinkValid

\* invariants I2 and I3 at the entry of index i (1-based)
LinkViolatedAt(history, i) ==
    IF i = 1 THEN history[1].parent_hash # NullHash
    ELSE \/ history[i].version # history[i - 1].version + 1
         \/ history[i].parent_hash # history[i - 1].sha256

\* C7: verification reports a chain-broken diagnostic (an invalid chain
\* link, or an error) on every entry at which the version is not the
\* previous version plus one or the parent_hash is not the previous sha256
\* (for the first entry: a parent_hash is present).
C7_BrokenChainReported ==
    verifyOutput.done =>
        \A i \in 1..Len(verifyInput.payload.history) :
            LinkViolatedAt(verifyInput.payload.history, i)
            => \/ ~verifyOutput.results[i].verification.isChainLinkValid
               \/ verifyOutput.results[i].verification.error # <<>>

MaxRotPayloads == 2   \* distinct payloads a rotation may hold
MaxRotMeta == 2       \* distinct metadata records a rotation may hold

DEFAULT_ROTATIONS == <<0, 90, 180, 270, -90, -180, -270>>

Undefined == -1       \* the value undefined of a number-valued field

\* the operator % of JavaScript: the remainder has the sign of the dividend
JsRem(a, n) == IF a >= 0 THEN a % n ELSE -((-a) % n)

\* ((degrees % 360) + 360) % 360
Normalize(degrees) == JsRem(JsRem(degrees, 360) + 360, 360)

\* the comparator of sortedRotations
CompareRotations(a, b) ==
    IF Normalize(a) = 0 THEN -1
    ELSE IF Normalize(b) = 0 THEN 1
    ELSE Normalize(a) - Normalize(b)

\* Array.prototype.sort is stable: an element goes behind every element
\* that does not compare greater
RECURSIVE InsertRotation(_, _)
InsertRotation(x, sorted) ==
    IF sorted = <<>> THEN <<x>>
    ELSE IF CompareRotations(Head(sorted), x) > 0 THEN <<x>> \o sorted
    ELSE <<Head(sorted)>> \o InsertRotation(x, Tail(sorted))

RECURSIVE SortRotations(_)
SortRotations(rotations) ==
    IF rotations = <<>> THEN <<>>
    ELSE InsertRotation(rotations[Len(rotations)],
                        SortRotations(SubSeq(rotations, 1, Len(rotations) - 1)))

sortedRotations == SortRotations(DEFAULT_ROTATIONS)

Angles == {Normalize(DEFAULT_ROTATIONS[i]) : i \in 1..Len(DEFAULT_ROTATIONS)}

RotViews ==
    [rotateFails : {FALSE}, payload : 0..MaxRotPayloads, meta : 0..MaxRotMeta]
    \cup {[rotateFails |-> TRUE, payload |-> 0, meta |-> 0]}

\* rotateCanvas returns the source itself for 0 degrees and cannot fail
RotSources ==
    {src \in [loadable : BOOLEAN, views : [Angles -> RotViews]] :
        /\ ~src.views[0].rotateFails
        /\ ~src.loadable => \A a \in Angles : src.views[a] = src.views[0]}

NoRotPayload == [id |-> 0, dct_metadata |-> 0]

\* extractPayloadWithDetails on a candidate: extractInternal adds the DCT
\* metadata to the payload it decoded
RotDetails(view) ==
    [payload |-> IF view.payload = 0 THEN NoRotPayload
                 ELSE [id |-> view.payload, dct_metadata |-> view.meta],
     criticalMetadata |-> view.meta]

\* tryExtractDCT on a candidate
RotTryExtractDCT(view) == [success |-> view.meta # 0, metadata |-> view.meta]

\* the identifier normalizedRotation is a const of the block of the first
\* try statement; where the second try statement reads it, it is not in
\* scope and the read throws a ReferenceError
NormalizedRotationInScope == FALSE

\* normalizedRotation === 0 ? 0 : rotation, as read in the second try block
ReportedRotation(rotation) ==
    IF NormalizedRotationInScope
    THEN [thrown |-> FALSE, value |-> IF Normalize(rotation) = 0 THEN 0 ELSE rotation]
    ELSE [thrown |-> TRUE, value |-> Undefined]

RotLocals == [lastCriticalMetadata |-> 0, metadataRotation |-> Undefined,
              lastError |-> "", extractionErrors |-> 0]

NoRotResult == [success |-> FALSE, payload |-> NoRotPayload, rotation |-> Undefined,
                criticalMetadata |-> 0, error |-> ""]

\* the body of the second try statement for one candidate: it returns,
\* runs to its end, or throws
ExtractionBlock(L, rotation, view) ==
    LET details == RotDetails(view)
        reported == ReportedRotation(rotation)
        withMeta == [L EXCEPT !.lastCriticalMetadata = details.criticalMetadata]
        dctFallback == RotTryExtractDCT(view)
        withFallback ==
            IF dctFallback.success /\ dctFallback.metadata # 0
            THEN IF L.metadataRotation = Undefined /\ ~reported.thrown
                 THEN [L EXCEPT !.lastCriticalMetadata = dctFallback.metadata,
                                !.metadataRotation = reported.value]
                 ELSE [L EXCEPT !.lastCriticalMetadata = dctFallback.metadata]
            ELSE L
        NotFound(K) == IF K.lastCriticalMetadata = 0
                       THEN [K EXCEPT !.lastError = "payload_not_found"] ELSE K
    IN IF details.payload.id # 0
       THEN IF reported.thrown THEN [kind |-> "throw", locals |-> L, result |-> NoRotResult]
            ELSE [kind |-> "return", locals |-> L,
                  result |-> [success |-> TRUE, payload |-> details.payload,
                              rotation |-> reported.value,
                              criticalMetadata |-> details.criticalMetadata,
                              error |-> ""]]
       ELSE IF details.criticalMetadata # 0
       THEN IF L.metadataRotation = Undefined
            THEN IF reported.thrown
                 THEN [kind |-> "throw", locals |-> withMeta, result |-> NoRotResult]
                 ELSE [kind |-> "normal",
                       locals |-> NotFound([withMeta EXCEPT !.metadataRotation = reported.value]),
                       result |-> NoRotResult]
            ELSE [kind |-> "normal", locals |-> NotFound(withMeta), result |-> NoRotResult]
       ELSE [kind |-> "normal", locals |-> NotFound(withFallback), result |-> NoRotResult]

\* an extraction whose catch clause lets the error escape
CatchNothing(outcome) == outcome

\* the catch clause of the second try statement
CatchExtraction(outcome) ==
    IF outcome.kind = "throw"
    THEN [kind |-> "normal",
          locals |-> [outcome.locals EXCEPT
                        !.extractionErrors = @ + 1,
                        !.lastError = IF outcome.locals.lastCriticalMetadata = 0
                                      THEN "ReferenceError" ELSE @],
          result |-> NoRotResult]
    ELSE outcome

\* one turn of the loop over sortedRotations
TryCandidate(L, rotation, src) ==
    LET view == src.views[Normalize(rotation)]
    IN IF Normalize(rotation) # 0 /\ view.rotateFails
       THEN [kind |-> "normal",
             locals |-> [L EXCEPT !.extractionErrors = @ + 1,
                                  !.lastError = "Unable to rotate canvas"],
             result |-> NoRotResult]
       ELSE CatchExtraction(ExtractionBlock(L, rotation, view))

\* the result after the loop
RotFinalResult(L) ==
    IF L.lastCriticalMetadata # 0
    THEN [success |-> FALSE, payload |-> NoRotPayload, rotation |-> L.metadataRotation,
          criticalMetadata |-> L.lastCriticalMetadata,
          error |-> "Full payload not found, but critical metadata recovered."]
    ELSE [success |-> FALSE, payload |-> NoRotPayload, rotation |-> L.metadataRotation,
          criticalMetadata |-> 0,
          error |-> "Unable to extract ImageChain data from this image."]

RotInit ==
    /\ SessionIdle
    /\ VerifyIdle
    /\ rotSource \in RotSources
    /\ rot = [pc |-> "load", i |-> 1, locals |-> RotLocals, result |-> NoRotResult]
    /\ CodecIdle
    /\ RepIdle
    /\ CanonIdle
    /\ CoeffIdle
    /\ LocIdle

\* renderCanvasFromImage rejects: the first catch clause returns
RotLoadFails ==
    /\ rot.pc = "load"
    /\ ~rotSource.loadable
    /\ rot' = [rot EXCEPT !.pc = "done",
                          !.result = [NoRotResult EXCEPT !.error = "Failed to load image"]]
    /\ UNCHANGED <<sessVars, verVars, rotSource, codecVars, repVars, canonVars, coeffVars, locVars>>

RotLoad ==
    /\ rot.pc = "load"
    /\ rotSource.loadable
    /\ rot' = [rot EXCEPT !.pc = "loop"]
    /\ UNCHANGED <<sessVars, verVars, rotSource, codecVars, repVars, canonVars, coeffVars, locVars>>

RotTryCandidate ==
    /\ rot.pc = "loop"
    /\ rot.i <= Len(sortedRotations)
    /\ LET outcome == TryCandidate(rot.locals, sortedRotations[rot.i], rotSource)
       IN rot' = IF outcome.kind = "return"
                 THEN [rot EXCEPT !.pc = "done", !.result = outcome.result]
                 ELSE IF outcome.kind = "throw"
                 THEN [rot EXCEPT !.pc = "thrown", !.locals = outcome.locals]
                 ELSE [rot EXCEPT !.i = @ + 1, !.locals = outcome.locals]
    /\ UNCHANGED <<sessVars, verVars, rotSource, codecVars, repVars, canonVars, coeffVars, locVars>>

RotReturn ==
    /\ rot.pc = "loop"
    /\ rot.i > Len(sortedRotations)
    /\ rot' = [rot EXCEPT !.pc = "done", !.result = RotFinalResult(rot.locals)]
    /\ UNCHANGED <<sessVars, verVars, rotSource, codecVars, repVars, canonVars, coeffVars, locVars>>

RotNext ==
    \/ RotLoadFails
    \/ RotLoad
    \/ RotTryCandidate
    \/ RotReturn

SpecRot == RotInit /\ [][RotNext]_vars

\* the candidates in the order of the specification
TriedOrder == <<0, 90, 180, 270>>

HoldsPayload(a) == ~rotSource.views[a].rotateFails /\ rotSource.views[a].payload # 0
HoldsMeta(a) == ~rotSource.views[a].rotateFails /\ rotSource.views[a].meta # 0

\* the first candidate of TriedOrder that satisfies P
FirstIndex(P(_)) == CHOOSE i \in 1..Len(TriedOrder) :
                        /\ P(TriedOrder[i])
                        /\ \A j \in 1..(i - 1) : ~P(TriedOrder[j])

\* C8: when the low bits of some candidate rotation hold a full payload,
\* the call returns success with the payload of the first such candidate
\* in the order 0, 90, 180, 270, enriched with its DCT metadata, and
\* reports the rotation of that candidate.
C8_FirstPayloadReturned ==
    (rot.pc = "done" /\ rotSource.loadable
        /\ \E i \in 1..Len(TriedOrder) : HoldsPayload(TriedOrder[i]))
    => LET a == TriedOrder[FirstIndex(HoldsPayload)]
       IN /\ rot.result.success
          /\ rot.result.payload = [id |-> rotSource.views[a].payload,
                                   dct_metadata |-> rotSource.views[a].meta]
          /\ rot.result.rotation = a

\* C9: when no candidate holds a full payload and some candidate holds DCT
\* metadata, the call returns a metadata-only result whose metadata and
\* rotation are those of the earliest candidate that held metadata.
C9_EarliestMetadataReturned ==
    (rot.pc = "done" /\ rotSource.loadable
        /\ (\A i \in 1..Len(TriedOrder) : ~HoldsPayload(TriedOrder[i]))
        /\ \E i \in 1..Len(TriedOrder) : HoldsMeta(TriedOrder[i]))
    => LET a == TriedOrder[FirstIndex(HoldsMeta)]
       IN /\ ~rot.result.success
          /\ rot.result.payload = NoRotPayload
          /\ rot.result.criticalMetadata = rotSource.views[a].meta
          /\ rot.result.rotation = a

FullResult(r) == r.success /\ r.payload # NoRotPayload
MetadataOnlyResult(r) == ~r.success /\ r.payload = NoRotPayload /\ r.criticalMetadata # 0
NothingResult(r) == ~r.success /\ r.payload = NoRotPayload /\ r.criticalMetadata = 0

\* C10: tryExtractWithRotations never throws, and the record it returns is
\* a full payload, a metadata-only result or nothing.
C10_RotationsNeverThrow ==
    /\ rot.pc # "thrown"
    /\ rot.pc = "done" =>
          \/ FullResult(rot.result)
          \/ MetadataOnlyResult(rot.result)
          \/ NothingResult(rot.result)

C10_Witness ==
    /\ rot.pc = "done"
    /\ rot.locals.extractionErrors > 1
    /\ \E a \in Angles : rotSource.views[a].rotateFails
    /\ \E a \in Angles : HoldsPayload(a)
    /\ MetadataOnlyResult(rot.result)

(***************************************************************************)
(* SpecCodec: embedPayload and extractInternal (watermarkService).         *)
(*                                                                         *)
(* A Uint8Array is held run-length encoded, as a sequence of runs          *)
(* [b |-> byte, n |-> count] in which neighbouring runs differ in b, so    *)
(* that arrays of many megabytes can be told apart from short ones.        *)
(* Offsets count from 0 as in the code.                                    *)
(***************************************************************************)
MaxCodecHistory == 2   \* entries of a payload that is embedded
MaxCodecHash == 2      \* chain ids and image hashes 1..MaxCodecHash

RECURSIVE Canon(_)
Canon(a) ==
    IF a = <<>> THEN <<>>
    ELSE IF a[1].n = 0 THEN Canon(Tail(a))
    ELSE IF Len(a) = 1 THEN a
    ELSE IF a[2].n = 0 THEN Canon(<<a[1]>> \o Tail(Tail(a)))
    ELSE IF a[1].b = a[2].b
         THEN Canon(<<[b |-> a[1].b, n |-> a[1].n + a[2].n]>> \o Tail(Tail(a)))
         ELSE <<a[1]>> \o Canon(Tail(a))

\* new Uint8Array([...])
FromSeq(seq) == Canon([i \in 1..Len(seq) |-> [b |-> seq[i], n |-> 1]])

\* a.length
RECURSIVE BLen(_)
BLen(a) == IF a = <<>> THEN 0 ELSE a[1].n + BLen(Tail(a))

\* a[i]; -1 stands for undefined, the value of an index out of range
RECURSIVE BAt(_, _)
BAt(a, i) ==
    IF a = <<>> \/ i < 0 THEN -1
    ELSE IF i < a[1].n THEN a[1].b
    ELSE BAt(Tail(a), i - a[1].n)

\* a.subarray(k)
RECURSIVE BDrop(_, _)
BDrop(a, k) ==
    IF a = <<>> \/ k <= 0 THEN a
    ELSE IF k < a[1].n THEN <<[b |-> a[1].b, n |-> a[1].n - k]>> \o Tail(a)
    ELSE BDrop(Tail(a), k - a[1].n)

\* a.subarray(0, k)
RECURSIVE BTake(_, _)
BTake(a, k) ==
    IF a = <<>> \/ k <= 0 THEN <<>>
    ELSE IF k < a[1].n THEN <<[b |-> a[1].b, n |-> k]>>
    ELSE <<a[1]>> \o BTake(Tail(a), k - a[1].n)

\* a.slice(from, to)
BSlice(a, from, to) == BTake(BDrop(a, from), to - from)

BCat(a, b) == Canon(a \o b)

\* data[j] = value
BSet(data, j, value) ==
    BCat(BCat(BTake(data, j), <<[b |-> value, n |-> 1]>>), BDrop(data, j + 1))

\* the bytes left of the run that holds offset i
RECURSIVE RunRest(_, _)
RunRest(a, i) ==
    IF a = <<>> THEN 1
    ELSE IF i < a[1].n THEN a[1].n - i
    ELSE RunRest(Tail(a), i - a[1].n)

(***************************************************************************)
(* A number that `>>> 0` keeps in 0 .. 2^32 - 1 is held as its two 16-bit  *)
(* halves; a number that `|` and `<<` produce is a signed 32-bit integer.  *)
(***************************************************************************)
Half == 256 * 256

Uint32Zero == [hi |-> 0, lo |-> 0]

\* (sum + b + ... + b) >>> 0, with b added n times
AddBytes(sum, b, n) ==
    LET low == sum.lo + b * (n % Half)
    IN [hi |-> (sum.hi + b * (n \div Half) + low \div Half) % Half,
        lo |-> low % Half]

\* checksum32
RECURSIVE checksum32From(_, _)
checksum32From(bytes, sum) ==
    IF bytes = <<>> THEN sum
    ELSE checksum32From(Tail(bytes), AddBytes(sum, bytes[1].b, bytes[1].n))

checksum32(bytes) == checksum32From(bytes, Uint32Zero)

\* (x >>> 24) & 0xff, (x >>> 16) & 0xff, (x >>> 8) & 0xff, x & 0xff
BytesOfUint32(x) == <<x.hi \div 256, x.hi % 256, x.lo \div 256, x.lo % 256>>

BytesOfLength(length) ==
    <<(length \div 16777216) % 256, (length \div Half) % 256,
      (length \div 256) % 256, length % 256>>

\* (b0 << 24) | (b1 << 16) | (b2 << 8) | b3: a signed 32-bit integer
ReadInt32(b0, b1, b2, b3) ==
    (IF b0 >= 128 THEN b0 - 256 ELSE b0) * 16777216 + b1 * Half + b2 * 256 + b3

\* x === y for x from `>>> 0` and y from `|`
SameNumber(x, y) == x.hi < 32768 /\ x.hi * Half + x.lo = y

LSB_MAGIC == <<73, 67, 76, 83, 66, 48, 49>>        \* 'ICLSB01'
LSB_END_MARKER == <<73, 67, 69, 78, 68, 48, 49>>   \* 'ICEND01'

\* withRepetition
withRepetition(bytes) ==
    [i \in 1..Len(bytes) |-> [b |-> bytes[i].b, n |-> bytes[i].n * REPETITION_FACTOR]]

\* a vote that takes the first byte of the chunk
majorityVoteFirst(chunk) ==
    [value |-> chunk[1],
     mismatches |-> Cardinality({i \in 1..Len(chunk) : chunk[i] # chunk[1]})]

\* majorityVote: the Map keeps the values in the order they first occur,
\* and a later value wins only with a strictly greater count
majorityVote(chunk) ==
    LET Count(v) == Cardinality({i \in 1..Len(chunk) : chunk[i] = v})
        bestCount == CHOOSE c \in 1..Len(chunk) :
                        /\ \E i \in 1..Len(chunk) : Count(chunk[i]) = c
                        /\ \A i \in 1..Len(chunk) : Count(chunk[i]) <= c
        first == CHOOSE i \in 1..Len(chunk) :
                    /\ Count(chunk[i]) = bestCount
                    /\ \A j \in 1..(i - 1) : Count(chunk[j]) # bestCount
    IN [value |-> chunk[first], mismatches |-> Len(chunk) - bestCount]

\* recoverRepetition: a run of 3k equal bytes decodes to k bytes without
\* mismatch; a chunk that straddles runs is voted on
RECURSIVE recoverFrom(_, _, _)
recoverFrom(data, decoded, mismatches) ==
    IF BLen(data) < REPETITION_FACTOR
    THEN [bytes |-> Canon(decoded), mismatches |-> mismatches]
    ELSE IF data[1].n >= REPETITION_FACTOR
    THEN recoverFrom(BDrop(data, (data[1].n \div REPETITION_FACTOR) * REPETITION_FACTOR),
                     Append(decoded, [b |-> data[1].b,
                                      n |-> data[1].n \div REPETITION_FACTOR]),
                     mismatches)
    ELSE LET vote == majorityVote([r \in 1..REPETITION_FACTOR |-> BAt(data, r - 1)])
         IN recoverFrom(BDrop(data, REPETITION_FACTOR),
                        Append(decoded, [b |-> vote.value, n |-> 1]),
                        mismatches + vote.mismatches)

recoverRepetition(data) == recoverFrom(data, <<>>, 0)

(***************************************************************************)
(* Payloads of the codec.  An entry is what tells it apart, its sha256,    *)
(* and the size of its snapshot in the deflated JSON text.                 *)
(***************************************************************************)
\* the deflated bytes of one large thumbnail or of many: their sum is
\* 255 * HugeSnapshot, the first multiple of 255 from 2^31 on
HugeSnapshot == 8421505

NoMetadata == [present |-> FALSE]
NoCodecPayload == [present |-> FALSE]

CodecEntries == [sha256 : 1..MaxCodecHash, snapshotBytes : {0, HugeSnapshot}]

\* a _dct_metadata field a payload may already carry
StaleMetadata == [present |-> TRUE, chain_id |-> 1, version_count |-> 0,
                  last_version_hash |-> NullHash]

CodecPayloads ==
    [present : {TRUE},
     chain_id : 1..MaxCodecHash,
     history : UNION {[1..n -> CodecEntries] : n \in 0..MaxCodecHistory},
     dct_metadata : {NoMetadata, StaleMetadata}]

\* pako.deflate(TEXT_ENCODER.encode(JSON.stringify(payload))): an injective
\* code of the payload, which grows with its snapshots
RECURSIVE DeflateHistory(_)
DeflateHistory(history) ==
    IF history = <<>> THEN <<>>
    ELSE <<[b |-> 30 + history[1].sha256, n |-> 1],
           [b |-> 255, n |-> history[1].snapshotBytes]>>
         \o DeflateHistory(Tail(history))

Deflate(payload) ==
    Canon(<<[b |-> 120, n |-> 1],
            [b |-> 10 + payload.chain_id, n |-> 1],
            [b |-> IF payload.dct_metadata.present THEN 21 ELSE 20, n |-> 1]>>
          \o DeflateHistory(payload.history)
          \o <<[b |-> 1, n |-> 1]>>)

\* JSON.parse(pako.inflate(compressed)): throws on bytes that are no
\* deflate stream of a JSON text
CanInflate(compressed) == \E q \in CodecPayloads : Deflate(q) = compressed
Inflate(compressed) == CHOOSE q \in CodecPayloads : Deflate(q) = compressed

\* framePayload
framePayload(payload) ==
    LET compressed == Deflate(payload)
        hash == checksum32(compressed)
    IN BCat(BCat(BCat(FromSeq(LSB_MAGIC),
                      FromSeq(BytesOfLength(BLen(compressed)) \o BytesOfUint32(hash))),
                 compressed),
            FromSeq(LSB_END_MARKER))

(***************************************************************************)
(* dctService.ts, as far as the codec depends on it: what fits, and what   *)
(* reads back.  Whether the coefficients of an image read back as they     *)
(* were embedded is a property of the image (dctHolds).                    *)
(***************************************************************************)
BLOCK_SIZE == 8
EmbedPositions == 5        \* EMBED_POSITIONS.length
MetadataMagicLength == 7   \* 'ICMETA1'

\* extractCriticalMetadata
extractCriticalMetadata(payload) ==
    [present |-> TRUE,
     chain_id |-> payload.chain_id,
     version_count |-> Len(payload.history),
     last_version_hash |-> IF Len(payload.history) > 0
                           THEN payload.history[Len(payload.history)].sha256
                           ELSE NullHash]

\* String(n).length of a version count
Digits(n) == IF n < 10 THEN 1 ELSE IF n < 100 THEN 2 ELSE 3

\* metadataToBytes(metadata).length: the JSON text holds two hashes of 64
\* characters (the last one empty for an empty history), the digits of the
\* version count and a checksum of 8
MetadataLength(metadata) ==
    MetadataMagicLength + 2
    + (141 + Digits(metadata.version_count)
       + (IF metadata.version_count > 0 THEN 64 ELSE 0)) + 4

DctCapacityBits(canvas) ==
    (canvas.width \div BLOCK_SIZE) * (canvas.height \div BLOCK_SIZE) * EmbedPositions

\* embedCriticalMetadataDCT throws before putImageData when the blocks run out
DctFits(canvas, metadata) == MetadataLength(metadata) * 8 <= DctCapacityBits(canvas)

\* the low bits of a canvas whose pixels the DCT layer has redrawn
RedrawnPlane(length) ==
    Canon(<<[b |-> 170, n |-> length \div 2], [b |-> 85, n |-> length - length \div 2]>>)

\* an embedding that leaves the record a canvas already carries
embedCriticalMetadataDCTKeepsRecord(canvas, metadata, redraws) ==
    [canvas EXCEPT !.dct = IF canvas.dct.present THEN canvas.dct
                           ELSE IF canvas.dctHolds THEN metadata ELSE NoMetadata,
                   !.lsb = IF redraws THEN RedrawnPlane(BLen(canvas.lsb)) ELSE @]

\* embedCriticalMetadataDCT when it fits: the pixels are redrawn
embedCriticalMetadataDCT(canvas, metadata, redraws) ==
    [canvas EXCEPT !.dct = IF canvas.dctHolds THEN metadata ELSE NoMetadata,
                   !.lsb = IF redraws THEN RedrawnPlane(BLen(canvas.lsb)) ELSE @]

\* extractCriticalMetadataDCT
extractCriticalMetadataDCT(canvas) == canvas.dct

(***************************************************************************)
(* The LSB layer.  canvas.lsb is what extractLsbBytes returns: the low     *)
(* bits of the colour channels in raster order, eight to the byte.         *)
(***************************************************************************)
CodecAvailableBits(canvas) == ((canvas.width * canvas.height * 4) \div 4) * 3

PlaneLength(width, height) == (((width * height * 4) \div 4) * 3) \div 8

\* embedBytesAsLsb: throws when requiredBits > availableBits
LsbFits(canvas, bytes) == BLen(bytes) * 8 <= CodecAvailableBits(canvas)

embedBytesAsLsb(canvas, bytes) ==
    [canvas EXCEPT !.lsb = BCat(bytes, BDrop(canvas.lsb, BLen(bytes)))]

extractLsbBytes(canvas) == canvas.lsb

\* bytes[start + i] === marker[i] for every i
MarkerAt(bytes, start, marker) ==
    \A i \in 1..Len(marker) : BAt(bytes, start + i - 1) = marker[i]

\* locateFrame: the loop over start.  A start whose byte is not the first
\* byte of the magic fails, and so does every start up to the end of its run
RECURSIVE locateFrom(_, _)
locateFrom(bytes, start) ==
    IF start > BLen(bytes) - (MagicLength + 8 + FooterLength)
    THEN [found |-> FALSE, frame |-> <<>>, start |-> start]
    ELSE IF BAt(bytes, start) # LSB_MAGIC[1]
    THEN locateFrom(bytes, start + RunRest(bytes, start))
    ELSE IF ~MarkerAt(bytes, start, LSB_MAGIC)
    THEN locateFrom(bytes, start + 1)
    ELSE LET lengthOffset == start + MagicLength
             payloadLength == ReadInt32(BAt(bytes, lengthOffset),
                                        BAt(bytes, lengthOffset + 1),
                                        BAt(bytes, lengthOffset + 2),
                                        BAt(bytes, lengthOffset + 3))
             totalFrameLength == MagicLength + 4 + 4 + payloadLength + FooterLength
             footerStart == start + totalFrameLength - FooterLength
         IN IF start + totalFrameLength > BLen(bytes)
            THEN locateFrom(bytes, start + 1)
            ELSE IF ~MarkerAt(bytes, footerStart, LSB_END_MARKER)
            THEN locateFrom(bytes, start + 1)
            ELSE [found |-> TRUE,
                  frame |-> BSlice(bytes, start, start + totalFrameLength),
                  start |-> start]

locateFrame(bytes) == locateFrom(bytes, 0)

\* parseFrame: null when inflate or JSON.parse throws
parseFrame(frame) ==
    LET lengthOffset == MagicLength
        payloadLength == ReadInt32(BAt(frame, lengthOffset), BAt(frame, lengthOffset + 1),
                                   BAt(frame, lengthOffset + 2), BAt(frame, lengthOffset + 3))
        checksumOffset == lengthOffset + 4
        checksum == ReadInt32(BAt(frame, checksumOffset), BAt(frame, checksumOffset + 1),
                              BAt(frame, checksumOffset + 2), BAt(frame, checksumOffset + 3))
        payloadStart == checksumOffset + 4
        compressed == BSlice(frame, payloadStart, payloadStart + payloadLength)
        computedChecksum == checksum32(compressed)
    IN IF CanInflate(compressed)
       THEN [parsed |-> TRUE, payload |-> Inflate(compressed),
             checksumMatched |-> SameNumber(computedChecksum, checksum)]
       ELSE [parsed |-> FALSE, payload |-> NoCodecPayload, checksumMatched |-> FALSE]

\* extractInternal from locateFrame on: recovered is what recoverRepetition
\* returned
extractDecoded(criticalMetadata, recovered) ==
    LET located == locateFrame(recovered.bytes)
        parsed == parseFrame(located.frame)
        errorRate == [mismatches |-> recovered.mismatches,
                      of |-> IF BLen(recovered.bytes) * REPETITION_FACTOR > 1
                             THEN BLen(recovered.bytes) * REPETITION_FACTOR ELSE 1]
        enriched == IF criticalMetadata.present /\ ~parsed.payload.dct_metadata.present
                    THEN [parsed.payload EXCEPT !.dct_metadata = criticalMetadata]
                    ELSE parsed.payload
    IN IF ~located.found \/ ~parsed.parsed
       THEN [payload |-> NoCodecPayload, recovered |-> FALSE, corruptionDetected |-> TRUE,
             errorRate |-> errorRate, criticalMetadata |-> criticalMetadata,
             dctExtracted |-> criticalMetadata.present]
       ELSE [payload |-> IF parsed.checksumMatched THEN enriched ELSE NoCodecPayload,
             recovered |-> recovered.mismatches > 0,
             corruptionDetected |-> ~parsed.checksumMatched \/ recovered.mismatches > 0,
             errorRate |-> errorRate, criticalMetadata |-> criticalMetadata,
             dctExtracted |-> criticalMetadata.present]

\* extractInternal
extractInternal(canvas) ==
    extractDecoded(extractCriticalMetadataDCT(canvas),
                   recoverRepetition(extractLsbBytes(canvas)))

(***************************************************************************)
(* The round trip: embedPayload(canvas, payload), then                     *)
(* extractPayloadWithDetails(canvas).                                      *)
(***************************************************************************)
\* canvas sizes: one block and too few pixels for any frame, room for a
\* small frame but not for the DCT metadata, room for everything
CodecDims == {<<8, 8>>, <<16, 17>>, <<8210, 8210>>}

\* low bits of an image before anything is embedded: flat, or textured at
\* the start or at the end of the raster
CodecPlanes(length) ==
    {Canon(<<[b |-> 0, n |-> length]>>), RedrawnPlane(length),
     Canon(<<[b |-> 1, n |-> 1], [b |-> 2, n |-> 1], [b |-> 0, n |-> length - 2]>>),
     Canon(<<[b |-> 0, n |-> length - 2], [b |-> 1, n |-> 1], [b |-> 2, n |-> 1]>>)}

CodecCanvases ==
    UNION {[width : {d[1]}, height : {d[2]},
            lsb : CodecPlanes(PlaneLength(d[1], d[2])),
            dctHolds : BOOLEAN,
            dct : {NoMetadata}] : d \in CodecDims}

\* the payload of the commit before the one that built `payload`
PriorPayload(payload) ==
    [payload EXCEPT !.history = SubSeq(@, 1, Len(@) - 1)]

\* the canvases embedPayload is given: an image that carries no record, or
\* the image of the previous commit of the chain, whose record reads back
CanvasesFor(payload) ==
    CodecCanvases
    \cup {[c EXCEPT !.dct = extractCriticalMetadata(PriorPayload(payload))] :
            c \in {d \in CodecCanvases :
                      /\ d.dctHolds
                      /\ Len(payload.history) >= 2
                      /\ DctFits(d, extractCriticalMetadata(PriorPayload(payload)))}}

NoExtraction == [payload |-> NoCodecPayload]

CodecInit ==
    /\ SessionIdle
    /\ VerifyIdle
    /\ RotIdle
    /\ codecPayload \in CodecPayloads
    /\ codecCanvas \in CanvasesFor(codecPayload)
    /\ codec = [pc |-> "dct", embedded |-> FALSE, flipped |-> FALSE,
                log |-> <<>>, result |-> NoExtraction]
    /\ RepIdle
    /\ CanonIdle
    /\ CoeffIdle
    /\ LocIdle

\* embedPayload: embedCriticalMetadataDCT succeeds
CodecEmbedDct(redraws) ==
    /\ codec.pc = "dct"
    /\ DctFits(codecCanvas, extractCriticalMetadata(codecPayload))
    /\ codecCanvas' = embedCriticalMetadataDCT(codecCanvas,
                          extractCriticalMetadata(codecPayload), redraws)
    /\ codec' = [codec EXCEPT !.pc = "lsb", !.log = Append(@, "dctWrite")]
    /\ UNCHANGED <<sessVars, verVars, rotVars, repVars, canonVars, coeffVars, locVars, codecPayload>>

\* an embedCriticalMetadataDCT that puts the image data back before it throws
CodecEmbedDctFailsAfterWrite ==
    /\ codec.pc = "dct"
    /\ ~DctFits(codecCanvas, extractCriticalMetadata(codecPayload))
    /\ codecCanvas' = [codecCanvas EXCEPT !.lsb = RedrawnPlane(BLen(codecCanvas.lsb) - 1)
                                                 \o <<[b |-> 3, n |-> 1]>>]
    /\ codec' = [codec EXCEPT !.pc = "lsb"]
    /\ UNCHANGED <<sessVars, verVars, rotVars, repVars, canonVars, coeffVars, locVars, codecPayload>>

\* embedPayload: embedCriticalMetadataDCT throws and the catch clause warns
CodecEmbedDctFails ==
    /\ codec.pc = "dct"
    /\ ~DctFits(codecCanvas, extractCriticalMetadata(codecPayload))
    /\ codec' = [codec EXCEPT !.pc = "lsb"]
    /\ UNCHANGED <<sessVars, verVars, rotVars, repVars, canonVars, coeffVars, locVars, codecPayload, codecCanvas>>

\* an embedPayload that writes the DCT layer once more after the LSB layer
CodecEmbedLsbThenDct ==
    /\ codec.pc = "lsb"
    /\ LsbFits(codecCanvas, withRepetition(framePayload(codecPayload)))
    /\ codecCanvas' = embedCriticalMetadataDCT(
                          embedBytesAsLsb(codecCanvas,
                                          withRepetition(framePayload(codecPayload))),
                          extractCriticalMetadata(codecPayload), FALSE)
    /\ codec' = [codec EXCEPT !.pc = "extract", !.embedded = TRUE,
                              !.log = @ \o <<"lsbWrite", "dctWrite">>]
    /\ UNCHANGED <<sessVars, verVars, rotVars, repVars, canonVars, coeffVars, locVars, codecPayload>>

\* embedPayload: framePayload, withRepetition, embedBytesAsLsb
CodecEmbedLsb ==
    /\ codec.pc = "lsb"
    /\ LsbFits(codecCanvas, withRepetition(framePayload(codecPayload)))
    /\ codecCanvas' = embedBytesAsLsb(codecCanvas,
                                      withRepetition(framePayload(codecPayload)))
    /\ codec' = [codec EXCEPT !.pc = "extract", !.embedded = TRUE,
                              !.log = Append(@, "lsbWrite")]
    /\ UNCHANGED <<sessVars, verVars, rotVars, repVars, canonVars, coeffVars, locVars, codecPayload>>

\* embedPayload: embedBytesAsLsb throws 'Payload exceeds LSB capacity'
CodecEmbedLsbFails ==
    /\ codec.pc = "lsb"
    /\ ~LsbFits(codecCanvas, withRepetition(framePayload(codecPayload)))
    /\ codec' = [codec EXCEPT !.pc = "extract"]
    /\ UNCHANGED <<sessVars, verVars, rotVars, repVars, canonVars, coeffVars, locVars, codecPayload, codecCanvas>>

\* byte ^ (1 << k)
FlipBit(byte, k) ==
    IF (byte \div (2 ^ k)) % 2 = 1 THEN byte - 2 ^ k ELSE byte + 2 ^ k

\* offsets into the tripled frame of `length` bytes: in the magic, in the
\* length field, in the payload, and the last byte of the footer
FlipOffsets(length) ==
    {0, 1, REPETITION_FACTOR * MagicLength + 2,
     REPETITION_FACTOR * (MagicLength + 8) + 3, length - 1}

\* between embedding and extraction, one bit of one byte of the tripled
\* frame in the low bits of the image is flipped
CodecFlipBit(j, k) ==
    /\ codec.pc = "extract"
    /\ codec.embedded
    /\ ~codec.flipped
    /\ j < BLen(withRepetition(framePayload(codecPayload)))
    /\ codecCanvas' = [codecCanvas EXCEPT
                          !.lsb = BSet(@, j, FlipBit(BAt(@, j), k))]
    /\ codec' = [codec EXCEPT !.flipped = TRUE]
    /\ UNCHANGED <<sessVars, verVars, rotVars, repVars, canonVars, coeffVars, locVars, codecPayload>>

\* extractInternal, its first statement: extractCriticalMetadataDCT(canvas)
CodecExtractDct ==
    /\ codec.pc = "extract"
    /\ codec' = [codec EXCEPT !.pc = "extractLsb", !.log = Append(@, "dctRead")]
    /\ UNCHANGED <<sessVars, verVars, rotVars, repVars, canonVars, coeffVars, locVars, codecPayload, codecCanvas>>

\* extractInternal from extractLsbBytes(canvas) to its return
CodecExtract ==
    /\ codec.pc = "extractLsb"
    /\ codec' = [codec EXCEPT !.pc = "done", !.log = Append(@, "lsbRead"),
                              !.result = extractInternal(codecCanvas)]
    /\ UNCHANGED <<sessVars, verVars, rotVars, repVars, canonVars, coeffVars, locVars, codecPayload, codecCanvas>>

CodecNext ==
    \/ \E redraws \in BOOLEAN : CodecEmbedDct(redraws)
    \/ CodecEmbedDctFails
    \/ CodecEmbedLsb
    \/ CodecEmbedLsbFails
    \/ \E j \in FlipOffsets(BLen(withRepetition(framePayload(codecPayload)))),
           k \in {0, 7} : CodecFlipBit(j, k)
    \/ CodecExtractDct
    \/ CodecExtract

SpecCodec == CodecInit /\ [][CodecNext]_vars

\* C5: for every canvas with sufficient capacity and every payload p, the
\* payload extracted from embed(c, p) equals p: the same chain_id, the same
\* history, no field more and none less.
C5_RoundTrip ==
    (codec.pc = "done" /\ codec.embedded) => codec.result.payload = codecPayload

\* C13: when embedPayload(canvas, payload) fails with a capacity error (the
\* tripled frame exceeds the LSB capacity of the canvas), no step of the call
\* changes the canvas: neither the DCT layer nor the LSB layer is written.
C13_FailedEmbedLeavesCanvas ==
    [][(/\ codec.pc \in {"dct", "lsb"}
        /\ ~LsbFits(codecCanvas, withRepetition(framePayload(codecPayload))))
       => codecCanvas' = codecCanvas]_vars

C16_FramerPassesChecksum ==
    (codec.pc = "done" /\ codec.embedded)
    => /\ parseFrame(framePayload(codecPayload)).checksumMatched
       /\ codec.result.payload.present

\* C17: after exactly one bit of one byte of the tripled LSB frame of an
\* embedded image is flipped, extraction still returns the full payload
\* (chain_id and history) and reports corruption_detected = true,
\* recovered = true and error_rate > 0.
C17_SingleFlipRecovered ==
    (codec.pc = "done" /\ codec.flipped)
    => /\ codec.result.payload.present
       /\ codec.result.payload.chain_id = codecPayload.chain_id
       /\ codec.result.payload.history = codecPayload.history
       /\ codec.result.corruptionDetected
       /\ codec.result.recovered
       /\ codec.result.errorRate.mismatches > 0

\* the same for the payloads whose checksum stays below 2^31
FlipRecoveredBelowSignBit ==
    (/\ codec.pc = "done" /\ codec.flipped
     /\ \A i \in 1..Len(codecPayload.history) : codecPayload.history[i].snapshotBytes = 0)
    => /\ codec.result.payload.present
       /\ codec.result.payload.chain_id = codecPayload.chain_id
       /\ codec.result.payload.history = codecPayload.history
       /\ codec.result.corruptionDetected
       /\ codec.result.recovered
       /\ codec.result.errorRate.mismatches > 0

C26_CleanExtraction ==
    (codec.pc = "done" /\ codec.embedded /\ ~codec.flipped)
    => /\ codec.result.payload.present
       /\ codec.result.payload.chain_id = codecPayload.chain_id
       /\ codec.result.payload.history = codecPayload.history
       /\ ~codec.result.corruptionDetected
       /\ ~codec.result.recovered
       /\ codec.result.errorRate.mismatches = 0

\* the same for the payloads whose checksum stays below 2^31
CleanExtractionBelowSignBit ==
    (/\ codec.pc = "done" /\ codec.embedded /\ ~codec.flipped
     /\ \A i \in 1..Len(codecPayload.history) : codecPayload.history[i].snapshotBytes = 0)
    => /\ codec.result.payload.present
       /\ ~codec.result.corruptionDetected
       /\ ~codec.result.recovered
       /\ codec.result.errorRate.mismatches = 0

\* C29: in every result of extractPayloadWithDetails, recovered = true
\* implies that a payload is returned.
C29_RecoveredImpliesPayload ==
    (codec.pc = "done" /\ codec.result.recovered) => codec.result.payload.present

\* positions of an access in the log of pixel accesses
LogIndex(op) == {i \in 1..Len(codec.log) : codec.log[i] = op}

\* C21: within one embed call the DCT write, when it happens, is complete
\* before the LSB write starts and no pixel write follows the LSB write;
\* within one extraction the DCT read happens before the LSB read.
C21_LayerOrder ==
    /\ \A i \in LogIndex("dctWrite"), j \in LogIndex("lsbWrite") : i < j
    /\ \A j \in LogIndex("lsbWrite") :
          \A i \in (j + 1)..Len(codec.log) : codec.log[i] \in {"dctRead", "lsbRead"}
    /\ \A j \in LogIndex("lsbRead") : \E i \in LogIndex("dctRead") : i < j
    /\ \A i \in LogIndex("dctRead"), j \in LogIndex("lsbRead") : i < j

C21_Witness ==
    /\ codec.pc = "done"
    /\ codec.log = <<"dctWrite", "lsbWrite", "dctRead", "lsbRead">>
    /\ codec.result.payload.present

(***************************************************************************)
(* SpecRep: withRepetition, one byte of the tripled sequence replaced,     *)
(* recoverRepetition.                                                      *)
(***************************************************************************)
MaxRepLen == 3      \* length of the frame byte sequence

\* byte values of the frames and of the replaced byte
RepBytes == {0, 73, 255}

RepFrames == UNION {[1..n -> RepBytes] : n \in 0..MaxRepLen}

RepInit ==
    /\ SessionIdle
    /\ VerifyIdle
    /\ RotIdle
    /\ CodecIdle
    /\ CanonIdle
    /\ CoeffIdle
    /\ LocIdle
    /\ repFrame \in RepFrames
    /\ repData = withRepetition(FromSeq(repFrame))
    /\ rep = [pc |-> "tripled", replaced |-> FALSE]

\* one byte of the tripled sequence is replaced by another value
RepReplace(j, value) ==
    /\ rep.pc = "tripled"
    /\ ~rep.replaced
    /\ j < BLen(repData)
    /\ value # BAt(repData, j)
    /\ repData' = BSet(repData, j, value)
    /\ rep' = [rep EXCEPT !.replaced = TRUE]
    /\ UNCHANGED <<sessVars, verVars, rotVars, codecVars, canonVars, coeffVars, locVars, repFrame>>

\* recoverRepetition(data)
RepRecover ==
    /\ rep.pc = "tripled"
    /\ rep' = [pc |-> "decoded", replaced |-> rep.replaced,
               result |-> recoverRepetition(repData)]
    /\ UNCHANGED <<sessVars, verVars, rotVars, codecVars, canonVars, coeffVars, locVars, repFrame, repData>>

RepNext ==
    \/ \E j \in 0..(MaxRepLen * REPETITION_FACTOR - 1), value \in RepBytes :
          RepReplace(j, value)
    \/ RepRecover

SpecRep == RepInit /\ [][RepNext]_vars

\* C15: for every frame byte sequence F and every index j of the tripled
\* sequence, replacing the byte at j by any other value and then applying
\* the 3-way majority decode yields exactly F.
C15_SingleReplacementRecovered ==
    (rep.pc = "decoded" /\ rep.replaced) => rep.result.bytes = FromSeq(repFrame)

C15_Witness ==
    /\ rep.pc = "decoded"
    /\ rep.replaced
    /\ Len(repFrame) = 3
    /\ repFrame[1] = repFrame[2]
    /\ rep.result.mismatches = 1
    /\ rep.result.bytes = FromSeq(repFrame)

\* the round trip of a payload whose _dct_metadata extraction leaves alone
RoundTripOfBody ==
    (codec.pc = "done" /\ codec.embedded)
    => /\ codec.result.payload.present
       /\ codec.result.payload.chain_id = codecPayload.chain_id
       /\ codec.result.payload.history = codecPayload.history

\* ---------------------------------------------------------------------
\* SpecCanon: the canonical header text (cryptoService.ts)
\* ---------------------------------------------------------------------

\* largest number of keys of an object, and of items of an array
MaxCanonKeys == 2

\* JSON values: a string, an array of values, or an object whose v is the
\* sequence of its key/value pairs in insertion order
JStr(text) == [t |-> "str", v |-> text]
JArr(items) == [t |-> "arr", v |-> items]
JObj(pairs) == [t |-> "obj", v |-> pairs]

\* the keys in the order Array.prototype.sort gives them (UTF-16 code units)
KeyOrder == <<"sha256", "signature", "signer">>
CanonKeys == {KeyOrder[i] : i \in 1..Len(KeyOrder)}
KeyRank(key) == CHOOSE i \in 1..Len(KeyOrder) : KeyOrder[i] = key

\* Object.keys(value): the keys in insertion order
ObjectKeys(pairs) == [i \in 1..Len(pairs) |-> pairs[i].k]

\* value[key]
Lookup(pairs, key) == pairs[CHOOSE i \in 1..Len(pairs) : pairs[i].k = key].v

\* Object.keys(value).sort()
sortedKeys(pairs) ==
    LET keys == {pairs[i].k : i \in 1..Len(pairs)}
    IN [i \in 1..Len(pairs) |->
           CHOOSE key \in keys :
               Cardinality({other \in keys : KeyRank(other) < KeyRank(key)}) = i - 1]

\* a canonicalize that sorts the keys of an object and copies its values
canonicalizeShallow(value) ==
    IF value.t = "obj"
    THEN JObj([i \in 1..Len(value.v) |->
                  [k |-> sortedKeys(value.v)[i],
                   v |-> Lookup(value.v, sortedKeys(value.v)[i])]])
    ELSE value

\* canonicalize(value)
RECURSIVE canonicalize(_)
canonicalize(value) ==
    IF value.t = "arr"
    THEN JArr([i \in 1..Len(value.v) |-> canonicalize(value.v[i])])
    ELSE IF value.t = "obj"
    THEN JObj([i \in 1..Len(value.v) |->
                  [k |-> sortedKeys(value.v)[i],
                   v |-> canonicalize(Lookup(value.v, sortedKeys(value.v)[i]))]])
    ELSE value

\* the texts of a sequence, separated by commas
RECURSIVE JoinTexts(_)
JoinTexts(texts) ==
    IF texts = <<>> THEN <<>>
    ELSE IF Len(texts) = 1 THEN texts[1]
    ELSE texts[1] \o <<",">> \o JoinTexts(Tail(texts))

\* JSON.stringify(value), as the sequence of its tokens
RECURSIVE Stringify(_)
Stringify(value) ==
    IF value.t = "str" THEN <<"\"", value.v, "\"">>
    ELSE IF value.t = "arr"
    THEN <<"[">> \o JoinTexts([i \in 1..Len(value.v) |-> Stringify(value.v[i])])
         \o <<"]">>
    ELSE <<"{">>
         \o JoinTexts([i \in 1..Len(value.v) |->
                          <<"\"", value.v[i].k, "\"", ":">> \o Stringify(value.v[i].v)])
         \o <<"}">>

\* const copy = { ...payload }; delete copy.signature
WithoutSignature(payload) ==
    JObj(SelectSeq(payload.v, LAMBDA pair : pair.k # "signature"))

\* canonicalize(copy) of getPayloadHeader
HeaderRecord(payload) == canonicalize(WithoutSignature(payload))

\* getPayloadHeader(payload)
getPayloadHeaderText(payload) == Stringify(HeaderRecord(payload))

\* the records getPayloadHeader is given
SeqsUpTo(S, n) == UNION {[1..m -> S] : m \in 0..n}
DistinctKeys(pairs) ==
    \A i, j \in 1..Len(pairs) : pairs[i].k = pairs[j].k => i = j
JArrays(S) == {JArr(items) : items \in SeqsUpTo(S, MaxCanonKeys)}
JObjects(S) ==
    {JObj(pairs) : pairs \in {q \in SeqsUpTo([k : CanonKeys, v : S], MaxCanonKeys) :
                                  DistinctKeys(q)}}
JScalars == {JStr("a"), JStr("b")}
ArrayItems ==
    JScalars \cup {JObj(<<[k |-> "sha256", v |-> JStr("a")], [k |-> "signer", v |-> JStr("b")]>>),
                   JObj(<<[k |-> "signer", v |-> JStr("b")], [k |-> "sha256", v |-> JStr("a")]>>)}
NestedValues == JScalars \cup JArrays(ArrayItems) \cup JObjects(JScalars)
CanonInputs == JObjects(NestedValues)

\* exchange the pairs at i and i + 1
SwapAt(pairs, i) ==
    [j \in 1..Len(pairs) |->
        IF j = i THEN pairs[i + 1] ELSE IF j = i + 1 THEN pairs[i] ELSE pairs[j]]

\* the values that differ from value by the order of two neighbouring keys
\* of one object, at any depth
RECURSIVE OneSwap(_)
OneSwap(value) ==
    IF value.t = "arr"
    THEN {JArr([value.v EXCEPT ![i] = w]) :
             <<i, w>> \in UNION {{<<i, w>> : w \in OneSwap(value.v[i])} :
                                   i \in 1..Len(value.v)}}
    ELSE IF value.t = "obj"
    THEN {JObj(SwapAt(value.v, i)) : i \in 1..(Len(value.v) - 1)}
         \cup {JObj([value.v EXCEPT ![i].v = w]) :
                  <<i, w>> \in UNION {{<<i, w>> : w \in OneSwap(value.v[i].v)} :
                                        i \in 1..Len(value.v)}}
    ELSE {}

CanonInit ==
    /\ SessionIdle
    /\ VerifyIdle
    /\ RotIdle
    /\ CodecIdle
    /\ RepIdle
    /\ CoeffIdle
    /\ LocIdle
    /\ canonInput \in CanonInputs
    /\ canonShuffled = canonInput
    /\ canon = [pc |-> "input"]

\* the caller builds the same record with two keys in the other order
CanonReorder ==
    /\ canon.pc = "input"
    /\ canonShuffled' \in OneSwap(canonShuffled)
    /\ UNCHANGED <<sessVars, verVars, rotVars, codecVars, repVars, coeffVars, locVars, canonInput, canon>>

\* getPayloadHeader on both records, and on the canonical record again
CanonHeader ==
    /\ canon.pc = "input"
    /\ canon' = [pc |-> "done",
                 record |-> HeaderRecord(canonInput),
                 text |-> getPayloadHeaderText(canonInput),
                 shuffledText |-> getPayloadHeaderText(canonShuffled),
                 again |-> getPayloadHeaderText(HeaderRecord(canonInput))]
    /\ UNCHANGED <<sessVars, verVars, rotVars, codecVars, repVars, coeffVars, locVars, canonInput, canonShuffled>>

CanonNext ==
    \/ CanonReorder
    \/ CanonHeader

SpecCanon == CanonInit /\ [][CanonNext]_vars

\* C22: the canonical text of a record does not depend on the order of its
\* keys at any nesting depth, keeps the order of array items, never holds
\* the top-level signature field, and canonicalizing the canonical record
\* again gives the same text.
C22_CanonicalForm ==
    canon.pc = "done"
    => /\ canon.shuffledText = canon.text
       /\ \A i \in 1..Len(canon.record.v) : canon.record.v[i].k # "signature"
       /\ \A i \in 1..Len(canonInput.v) :
             (canonInput.v[i].k # "signature" /\ canonInput.v[i].v.t = "arr")
             => LET items == canonInput.v[i].v.v
                    kept == Lookup(canon.record.v, canonInput.v[i].k).v
                IN /\ Len(kept) = Len(items)
                   /\ \A j \in 1..Len(items) :
                         items[j].t = "str" => kept[j] = items[j]
       /\ canon.again = canon.text
       /\ canon.text = Stringify(canon.record)

C22_Witness ==
    /\ canon.pc = "done"
    /\ canonShuffled # canonInput
    /\ ObjectKeys(canonInput.v) = <<"signer", "signature">>
    /\ canonInput.v[1].v = JArr(<<JStr("b"),
                                  JObj(<<[k |-> "signer", v |-> JStr("b")],
                                         [k |-> "sha256", v |-> JStr("a")]>>)>>)
    /\ canonShuffled.v[1].k = "signature"
    /\ canonShuffled.v[2].v.v[2].v[1].k = "sha256"
    /\ canon.text = canon.shuffledText
    /\ canon.text = <<"{", "\"", "signer", "\"", ":", "[", "\"", "b", "\"", ",",
                      "{", "\"", "sha256", "\"", ":", "\"", "a", "\"", ",",
                      "\"", "signer", "\"", ":", "\"", "b", "\"", "}", "]", "}">>

\* ---------------------------------------------------------------------
\* SpecLocate: extractInternal on a decoded stream that holds a well-formed
\* frame behind other bytes (imageService.ts)
\* ---------------------------------------------------------------------
MaxLocHistory == 1    \* entries of the payload of the well-formed frame

\* payloads whose frame passes parseFrame's checksum comparison
LocPayloads ==
    {p \in CodecPayloads :
        /\ Len(p.history) <= MaxLocHistory
        /\ \A i \in 1..Len(p.history) : p.history[i].snapshotBytes = 0}

\* the magic, a length of two, a checksum, two bytes that are no deflate
\* stream, and the end marker where the length says
FalseFrame(checksum) ==
    FromSeq(LSB_MAGIC \o <<0, 0, 0, 2>> \o checksum \o <<9, 9>> \o LSB_END_MARKER)

\* what the decoded stream holds before the well-formed frame: nothing,
\* bytes without magic, a magic whose length points at no end marker, a
\* magic with a negative length, a magic whose length points at the end
\* marker of the well-formed frame, and a delimited frame whose body does
\* not inflate (with a wrong and with a right checksum)
LocPrefixes(frame) ==
    {<<>>,
     FromSeq(<<0, 0>>),
     FromSeq(LSB_MAGIC \o <<0, 0, 0, 2, 0, 0, 0, 0, 9, 9>>),
     FromSeq(LSB_MAGIC \o <<255, 255, 255, 255>>),
     FromSeq(LSB_MAGIC \o BytesOfLength(BLen(frame) - MagicLength - 4)),
     FalseFrame(<<0, 0, 0, 0>>),
     FalseFrame(<<0, 0, 0, 18>>)}

\* the decoded bytes: the prefix followed by the frame
LocStream(prefix, payload) == BCat(prefix, framePayload(payload))

LocInit ==
    /\ SessionIdle
    /\ VerifyIdle
    /\ RotIdle
    /\ CodecIdle
    /\ RepIdle
    /\ CanonIdle
    /\ CoeffIdle
    /\ locPayload \in LocPayloads
    /\ locPrefix \in LocPrefixes(framePayload(locPayload))
    /\ loc = [pc |-> "decoded",
              decoded |-> [bytes |-> LocStream(locPrefix, locPayload), mismatches |-> 0]]

\* locateFrame(decodedBytes)
LocLocate ==
    /\ loc.pc = "decoded"
    /\ loc' = [pc |-> "located", decoded |-> loc.decoded,
               located |-> locateFrame(loc.decoded.bytes)]
    /\ UNCHANGED <<sessVars, verVars, rotVars, codecVars, repVars, canonVars, coeffVars, locPayload, locPrefix>>

\* parseFrame(encodedFrame) and the result of extractInternal
LocReturn ==
    /\ loc.pc = "located"
    /\ loc' = [pc |-> "done", decoded |-> loc.decoded, located |-> loc.located,
               result |-> extractDecoded(NoMetadata, loc.decoded)]
    /\ UNCHANGED <<sessVars, verVars, rotVars, codecVars, repVars, canonVars, coeffVars, locPayload, locPrefix>>

LocNext ==
    \/ LocLocate
    \/ LocReturn

SpecLocate == LocInit /\ [][LocNext]_vars

\* the decoded stream holds a well-formed frame at the offset behind the
\* prefix: magic, length, end marker where the length says, matching
\* checksum, inflatable JSON
WellFormedFrameAt(bytes, offset, payload) ==
    LET frame == BSlice(bytes, offset, offset + BLen(framePayload(payload)))
    IN /\ frame = framePayload(payload)
       /\ parseFrame(frame).parsed
       /\ parseFrame(frame).checksumMatched
       /\ parseFrame(frame).payload = payload

\* C27: if the majority-decoded byte stream holds a well-formed frame at
\* some offset, extraction returns its payload, even when an earlier offset
\* holds the magic bytes followed by data that is no valid frame.
C27_LaterFrameFound ==
    (/\ loc.pc = "done"
     /\ WellFormedFrameAt(loc.decoded.bytes, BLen(locPrefix), locPayload))
    => /\ loc.result.payload.present
       /\ loc.result.payload.chain_id = locPayload.chain_id
       /\ loc.result.payload.history = locPayload.history

\* the same when the bytes behind the earlier magic hold no end marker
\* where their length says
LaterFrameFoundBehindUndelimited ==
    (/\ loc.pc = "done"
     /\ WellFormedFrameAt(loc.decoded.bytes, BLen(locPrefix), locPayload)
     /\ loc.located.start = BLen(locPrefix))
    => /\ loc.result.payload.present
       /\ loc.result.payload.chain_id = locPayload.chain_id
       /\ loc.result.payload.history = locPayload.history

\* ---------------------------------------------------------------------
\* SpecCoeff: one bit embedded into one DCT coefficient (dctService.ts)
\* ---------------------------------------------------------------------
MaxCoeff == 24        \* coefficients -MaxCoeff .. MaxCoeff

QUANTISATION_STEP == 4

\* Math.round(coeff / QUANTISATION_STEP) for an integer coefficient: the nearest
\* integer, a tie going up
RoundQuotient(coefficient) ==
    (2 * coefficient + QUANTISATION_STEP) \div (2 * QUANTISATION_STEP)

\* Math.abs
Abs(x) == IF x < 0 THEN -x ELSE x

\* an embedder that keeps a coefficient whose parity is already right
embedBitIntoCoeffKeepsValue(coefficient, bit) ==
    LET quantised == RoundQuotient(coefficient)
        desiredParity == bit % 2
        currentParity == Abs(quantised) % 2
    IN IF currentParity = desiredParity THEN coefficient
       ELSE IF quantised >= 0 THEN (quantised + 1) * QUANTISATION_STEP
       ELSE (quantised - 1) * QUANTISATION_STEP

\* embedBitIntoCoeff
embedBitIntoCoeff(coefficient, bit) ==
    LET quantised == RoundQuotient(coefficient)
        desiredParity == bit % 2
        currentParity == Abs(quantised) % 2
    IN IF currentParity = desiredParity THEN quantised * QUANTISATION_STEP
       ELSE IF quantised >= 0 THEN (quantised + 1) * QUANTISATION_STEP
       ELSE (quantised - 1) * QUANTISATION_STEP

\* extractBitFromCoeff
extractBitFromCoeff(coefficient) == Abs(RoundQuotient(coefficient)) % 2

CoeffInit ==
    /\ SessionIdle
    /\ VerifyIdle
    /\ RotIdle
    /\ CodecIdle
    /\ RepIdle
    /\ CanonIdle
    /\ LocIdle
    /\ coeffInput \in [c : (-MaxCoeff)..MaxCoeff, bit : {0, 1}]
    /\ coeff = [pc |-> "input"]

\* embedBitIntoCoeff(coeff, bit)
CoeffEmbed ==
    /\ coeff.pc = "input"
    /\ coeff' = [pc |-> "embedded",
                 value |-> embedBitIntoCoeff(coeffInput.c, coeffInput.bit)]
    /\ UNCHANGED <<sessVars, verVars, rotVars, codecVars, repVars, canonVars, locVars, coeffInput>>

\* extractBitFromCoeff of the coefficient that was returned
CoeffExtract ==
    /\ coeff.pc = "embedded"
    /\ coeff' = [pc |-> "read", value |-> coeff.value,
                 bit |-> extractBitFromCoeff(coeff.value)]
    /\ UNCHANGED <<sessVars, verVars, rotVars, codecVars, repVars, canonVars, locVars, coeffInput>>

\* embedBitIntoCoeff of the same bit into the coefficient that was returned
CoeffEmbedAgain ==
    /\ coeff.pc = "read"
    /\ coeff' = [pc |-> "again", value |-> coeff.value, bit |-> coeff.bit,
                 second |-> embedBitIntoCoeff(coeff.value, coeffInput.bit)]
    /\ UNCHANGED <<sessVars, verVars, rotVars, codecVars, repVars, canonVars, locVars, coeffInput>>

CoeffNext ==
    \/ CoeffEmbed
    \/ CoeffExtract
    \/ CoeffEmbedAgain

SpecCoeff == CoeffInit /\ [][CoeffNext]_vars

\* C28: for every integer coefficient c and bit b, the coefficient the
\* embedder returns is a multiple of Q = 4, the extractor reads exactly b
\* back from it, and embedding b again leaves it unchanged.
C28_CoeffBitRoundTrip ==
    /\ coeff.pc \in {"embedded", "read", "again"} => coeff.value % QUANTISATION_STEP = 0
    /\ coeff.pc \in {"read", "again"} => coeff.bit = coeffInput.bit
    /\ coeff.pc = "again" => coeff.second = coeff.value

\* a negative coefficient on a tie whose parity had to change
C28_Witness ==
    /\ coeff.pc = "again"
    /\ coeffInput = [c |-> -6, bit |-> 0]
    /\ coeff.value = -8
    /\ coeff.bit = 0
    /\ coeff.second = -8

====
